---------------------------- MODULE Spec2Model ----------------------------
(***************************************************************************)
(* Model of the response scorers and evaluation loops of the DevOps model  *)
(* evaluation scripts:                                                     *)
(*   src/eval/evaluation-scripts/ollama_qwen_devops_eval.py                *)
(*       OllamaDevOpsEvaluator (evaluate_response, query_ollama,           *)
(*       run_evaluation)                                                   *)
(*   src/eval/evaluation-scripts/devops_model_evaluation.py                *)
(*       DevOpsModelEvaluator (evaluate_response_accuracy,                 *)
(*       generate_response, run_comprehensive_evaluation)                  *)
(* and of the tools around them:                                           *)
(*   src/scripts/prepare-enhanced-devops-dataset.py                        *)
(*       (format_for_qwen3_training)                                       *)
(*   src/huggingface-space-training/app.py                                 *)
(*       (train_model, load_devops_datasets)                               *)
(*   src/huggingface-space-training/test_training_pipeline.py              *)
(*   src/eval/server-tools/chat_client.py (interactive_chat)               *)
(*   src/eval/ollama-tools/create_ollama_devops_model.py                   *)
(*                                                                         *)
(* Text.  A Python str is a TLC string; characters are one-character       *)
(* strings, and substring tests, lower(), split() and strip() are computed *)
(* character by character.  The module is ASCII, and SANY rejects a        *)
(* backquote inside a string, so two characters are written with a         *)
(* stand-in that occurs nowhere else in the texts of the model:            *)
(*      "*"  stands for the bullet U+2022,   "^"  stands for the backquote.*)
(*                                                                         *)
(* A response is a record [text, filler]: the string `text` followed by    *)
(* `filler` copies of FillerWord.  This lets a response have the 100 and   *)
(* 200 words the length bonus asks for without a 200-word literal.  Every  *)
(* operator on a response computes exactly what Python computes on the     *)
(* concatenated string (see In, WordCount, strip_is_empty).                *)
(*                                                                         *)
(* Numbers.  Scores are exact rationals [num, den] in lowest terms, so     *)
(* equal scores are equal records.  Python computes them in binary         *)
(* floating point; the integer-valued sub-scores are exact there too.      *)
(***************************************************************************)
EXTENDS Integers, Sequences, FiniteSets, TLC

---------------------------------------------------------------------------
(* Bounds of the model *)

\* a response text is built from at most MaxFrags fragments of Fragments
MaxFrags == 3
\* a keyword list has at most MaxKeywords distinct elements of KeywordPool
MaxKeywords == 2
\* run_evaluation runs the first MaxQuestions test questions
MaxQuestions == 3
\* run_comprehensive_evaluation runs the first MaxCategories categories
MaxCategories == 2
\* and the first MaxCases test cases of each category
MaxCases == 2
MaxExamples == 2
MaxSaves == 6

---------------------------------------------------------------------------
(* Arithmetic *)

Min(a, b) == IF a <= b THEN a ELSE b
Max(a, b) == IF a >= b THEN a ELSE b

RECURSIVE GCD(_, _)
GCD(a, b) == IF b = 0 THEN a ELSE GCD(b, a % b)

\* the rational n/d (n >= 0, d > 0) in lowest terms
Rat(n, d) == LET g == GCD(n, d) IN [num |-> n \div g, den |-> d \div g]
RatAdd(p, q) == Rat(p.num * q.den + q.num * p.den, p.den * q.den)
RatMul(p, q) == Rat(p.num * q.num, p.den * q.den)
RatLE(p, q) == p.num * q.den <= q.num * p.den
RatLT(p, q) == p.num * q.den < q.num * p.den
RatMin(p, q) == IF RatLE(p, q) THEN p ELSE q
RatMax(p, q) == IF RatLE(p, q) THEN q ELSE p

RECURSIVE RatSum(_)
RatSum(scores) ==
    IF scores = <<>> THEN Rat(0, 1) ELSE RatAdd(Head(scores), RatSum(Tail(scores)))

RECURSIVE Sum(_)
Sum(numbers) == IF numbers = <<>> THEN 0 ELSE Head(numbers) + Sum(Tail(numbers))

\* sum(scores) / len(scores)
RatMean(scores) == RatMul(RatSum(scores), Rat(1, Len(scores)))

---------------------------------------------------------------------------
(* Python str operations *)

UpperLetters == "ABCDEFGHIJKLMNOPQRSTUVWXYZ"
LowerLetters == "abcdefghijklmnopqrstuvwxyz"
Digits == {"0", "1", "2", "3", "4", "5", "6", "7", "8", "9"}
Whitespace == {" ", "\n", "\t"}

CharAt(s, i) == SubSeq(s, i, i)

UpperSet == {CharAt(UpperLetters, i) : i \in 1..26}
LowerOf == [c \in UpperSet |->
              CharAt(LowerLetters, CHOOSE i \in 1..26 : CharAt(UpperLetters, i) = c)]
UpperOf == [c \in {CharAt(LowerLetters, i) : i \in 1..26} |->
              CharAt(UpperLetters, CHOOSE i \in 1..26 : CharAt(LowerLetters, i) = c)]

LowerChar(c) == IF c \in UpperSet THEN LowerOf[c] ELSE c
UpperChar(c) == IF c \in DOMAIN UpperOf THEN UpperOf[c] ELSE c

\* str.lower(), on ASCII text: characters a..b of s, lower-cased
RECURSIVE LowerRange(_, _, _)
LowerRange(s, a, b) ==
    IF a > b THEN ""
    ELSE IF a = b THEN LowerChar(CharAt(s, a))
    ELSE LET m == (a + b) \div 2
         IN LowerRange(s, a, m) \o LowerRange(s, m + 1, b)
lower(s) == LowerRange(s, 1, Len(s))

\* str.upper(), on ASCII text
RECURSIVE UpperRange(_, _, _)
UpperRange(s, a, b) ==
    IF a > b THEN ""
    ELSE IF a = b THEN UpperChar(CharAt(s, a))
    ELSE LET m == (a + b) \div 2
         IN UpperRange(s, a, m) \o UpperRange(s, m + 1, b)
upper(s) == UpperRange(s, 1, Len(s))

\* `w in s` for two Python strings
IsSubstring(w, s) ==
    LET m == Len(w) - 1
    IN \E i \in 1..(Len(s) - m) : SubSeq(s, i, i + m) = w

\* len(s.split()): the number of maximal runs of non-whitespace characters
SplitCount(s) ==
    Cardinality({i \in 1..Len(s) :
                   /\ CharAt(s, i) \notin Whitespace
                   /\ (i = 1 \/ CharAt(s, i - 1) \in Whitespace)})

\* s.strip() == ""
IsAllWhitespace(s) == \A i \in 1..Len(s) : CharAt(s, i) \in Whitespace

RECURSIVE Repeat(_, _)
Repeat(s, n) == IF n = 0 THEN "" ELSE s \o Repeat(s, n - 1)

---------------------------------------------------------------------------
(* Responses: text followed by filler words *)

FillerWord == " ok"

\* response.lower()
response_lower_of(response) ==
    [text |-> lower(response.text), filler |-> response.filler]

\* `w in response`.  The filler is periodic, so an occurrence of w in the
\* whole string exists exactly when one exists in the text followed by the
\* first Len(w) filler words.
In(w, response) ==
    IsSubstring(w, response.text \o Repeat(FillerWord, Min(response.filler, Len(w))))

\* len(response.split()): each filler word starts with a space, so it is a
\* word of its own
WordCount(response) == SplitCount(response.text) + response.filler

\* `not response`
IsEmpty(response) == response.text = "" /\ response.filler = 0

\* response.strip() == ""
strip_is_empty(response) == IsAllWhitespace(response.text) /\ response.filler = 0

---------------------------------------------------------------------------
(* OllamaDevOpsEvaluator.evaluate_response *)

structure_indicators ==
    <<"step", "first", "next", "then", "finally", "overview", "summary",
      "checklist", "process", "workflow", "strategy", "approach",
      "1.", "2.", "3.", "*", "-", "phase", "stage">>

keyword_expansions ==
    [k \in {"blue-green", "service", "rollback", "deployment", "monitoring",
            "security", "terraform", "pipeline"} |->
       CASE k = "blue-green" ->
              {"blue green", "deployment strategy", "zero-downtime", "switch traffic"}
         [] k = "service" ->
              {"load balancer", "ingress", "traffic routing", "endpoint"}
         [] k = "rollback" ->
              {"revert", "fallback", "recovery", "previous version"}
         [] k = "deployment" -> {"rollout", "release", "deploy"}
         [] k = "monitoring" ->
              {"observability", "metrics", "alerts", "prometheus", "grafana"}
         [] k = "security" ->
              {"rbac", "network policy", "least privilege", "encryption"}
         [] k = "terraform" ->
              {"infrastructure as code", "iac", "state management"}
         [] k = "pipeline" ->
              {"ci/cd", "automation", "workflow", "github actions", "jenkins"}]

implementation_indicators ==
    <<"yaml", "kubectl", "docker", "helm", "terraform", "ansible", "apiversion",
      "metadata", "spec", "selector", "template", "deployment.yaml",
      "service.yaml", "ingress.yaml", "configmap", "apply -f", "patch",
      "create", "delete", "get pods", "describe", "namespace", "labels",
      "annotations", "resources", "limits", "replicas", "strategy",
      "rollingupdate", "recreate", "probe", "readiness", "liveness",
      "healthcheck", "secret", "volume", "persistent", "statefulset",
      "daemonset">>

best_practices ==
    <<"security", "rbac", "network policy", "encryption", "tls", "monitoring",
      "logging", "alerts", "prometheus", "grafana", "backup",
      "disaster recovery", "high availability", "sla", "resource limits",
      "requests", "quotas", "autoscaling", "testing", "validation",
      "smoke test", "health check", "gitops", "version control",
      "semantic versioning", "least privilege", "zero trust", "compliance",
      "audit", "observability", "tracing", "metrics", "error handling">>

\* sum(1 for indicator in indicators if indicator in response_lower)
CountIn(indicators, response_lower) ==
    Cardinality({i \in DOMAIN indicators : In(indicators[i], response_lower)})

\* set(keywords)
SetOf(keywords) == {keywords[i] : i \in DOMAIN keywords}

\* all_concepts: the keywords and the expansions of the keywords in the table
all_concepts_of(keywords) ==
    SetOf(keywords) \cup
    UNION {keyword_expansions[lower(keywords[i])] :
             i \in {j \in DOMAIN keywords :
                      lower(keywords[j]) \in DOMAIN keyword_expansions}}

\* the test of the comprehension negated: the concepts that are missing
ConceptsMissing(all_concepts, response_lower) ==
    {concept \in all_concepts : ~In(lower(concept), response_lower)}

\* the concepts counted by concepts_found
ConceptsIn(all_concepts, response_lower) ==
    {concept \in all_concepts : In(lower(concept), response_lower)}

\* min(25, (concepts_found / max(len(all_concepts), 1)) * 25)
concept_coverage_of(concepts_found, all_concepts) ==
    RatMin(Rat(25, 1), Rat(concepts_found * 25, Max(Cardinality(all_concepts), 1)))

\* min(25, sum(3 for indicator in structure_indicators if ...))
structure_score_of(response_lower) ==
    Min(25, 3 * CountIn(structure_indicators, response_lower))

\* full marks from 20 implementation indicators instead of 15
implementation_depth_from_20(impl_found) == RatMin(Rat(30, 1), Rat(impl_found * 30, 20))

\* min(30, (impl_found / 15) * 30)
implementation_depth_of(impl_found) == RatMin(Rat(30, 1), Rat(impl_found * 30, 15))

\* min(20, (practices_found / 10) * 20)
best_practices_score_of(practices_found) ==
    RatMin(Rat(20, 1), Rat(practices_found * 20, 10))

\* the bonus with a cap on the length: no bonus for more than 250 words
length_bonus_capped(length, implementation_depth, concept_coverage) ==
    IF length > 250 THEN 0
    ELSE IF length >= 200 /\ RatLE(Rat(20, 1), implementation_depth) THEN 5
    ELSE IF length >= 100 /\ RatLE(Rat(15, 1), concept_coverage) THEN 3
    ELSE 0

length_bonus_of(length, implementation_depth, concept_coverage) ==
    IF length >= 200 /\ RatLE(Rat(20, 1), implementation_depth) THEN 5
    ELSE IF length >= 100 /\ RatLE(Rat(15, 1), concept_coverage) THEN 3
    ELSE 0

\* the multipliers of intermediate and advanced exchanged
difficulty_multiplier_exchanged(difficulty) ==
    CASE difficulty = "basic" -> Rat(100, 100)
      [] difficulty = "intermediate" -> Rat(110, 100)
      [] difficulty = "advanced" -> Rat(105, 100)
      [] OTHER -> Rat(100, 100)

\* {"basic": 1.0, "intermediate": 1.05, "advanced": 1.10}.get(difficulty, 1.0)
difficulty_multiplier_of(difficulty) ==
    CASE difficulty = "basic" -> Rat(100, 100)
      [] difficulty = "intermediate" -> Rat(105, 100)
      [] difficulty = "advanced" -> Rat(110, 100)
      [] OTHER -> Rat(100, 100)

\* the total without the cap at 100
total_score_uncapped(raw_score, difficulty_multiplier) ==
    RatMul(raw_score, difficulty_multiplier)

\* min(100, raw_score * difficulty_multiplier)
total_score_of(raw_score, difficulty_multiplier) ==
    RatMin(Rat(100, 1), RatMul(raw_score, difficulty_multiplier))

\* evaluate_response up to the difficulty adjustment: the early return for an
\* empty response, or the sub-scores, the counts and raw_score
score_breakdown(response, keywords) ==
    IF IsEmpty(response) \/ strip_is_empty(response)
    THEN [empty |-> TRUE]
    ELSE
      LET response_lower == response_lower_of(response)
          length == WordCount(response)
          structure_score == Rat(structure_score_of(response_lower), 1)
          all_concepts == all_concepts_of(keywords)
          concepts_found == Cardinality(ConceptsIn(all_concepts, response_lower))
          concept_coverage == concept_coverage_of(concepts_found, all_concepts)
          impl_found == CountIn(implementation_indicators, response_lower)
          implementation_depth == implementation_depth_of(impl_found)
          practices_found == CountIn(best_practices, response_lower)
          best_practices_score == best_practices_score_of(practices_found)
          length_bonus == length_bonus_of(length, implementation_depth, concept_coverage)
      IN [empty |-> FALSE,
          structure_score |-> structure_score,
          concept_coverage |-> concept_coverage,
          implementation_depth |-> implementation_depth,
          best_practices_score |-> best_practices_score,
          length_bonus |-> Rat(length_bonus, 1),
          raw_score |->
              RatAdd(RatAdd(RatAdd(RatAdd(structure_score, concept_coverage),
                                   implementation_depth),
                            best_practices_score),
                     Rat(length_bonus, 1)),
          word_count |-> length,
          concepts_found |-> concepts_found,
          implementation_indicators |-> impl_found,
          best_practices_found |-> practices_found]

\* the dictionary evaluate_response returns, from the breakdown and the
\* difficulty
evaluate_response_result(breakdown, difficulty) ==
    IF breakdown.empty
    THEN [structure_score |-> Rat(0, 1),
          concept_coverage |-> Rat(0, 1),
          implementation_depth |-> Rat(0, 1),
          best_practices_score |-> Rat(0, 1),
          total_score |-> Rat(0, 1),
          word_count |-> 0,
          concepts_found |-> 0,
          implementation_indicators |-> 0,
          best_practices_found |-> 0]
    ELSE [structure_score |-> breakdown.structure_score,
          concept_coverage |-> breakdown.concept_coverage,
          implementation_depth |-> breakdown.implementation_depth,
          best_practices_score |-> breakdown.best_practices_score,
          length_bonus |-> breakdown.length_bonus,
          total_score |->
              total_score_of(breakdown.raw_score, difficulty_multiplier_of(difficulty)),
          word_count |-> breakdown.word_count,
          concepts_found |-> breakdown.concepts_found,
          implementation_indicators |-> breakdown.implementation_indicators,
          best_practices_found |-> breakdown.best_practices_found]

evaluate_response(response, keywords, difficulty) ==
    evaluate_response_result(score_breakdown(response, keywords), difficulty)

---------------------------------------------------------------------------
(* DevOpsModelEvaluator.evaluate_response_accuracy *)

\* re.search(r'```|`[^`]+`', response): three backquotes in a row, or a
\* backquote, one or more other characters, and a backquote.  No filler word
\* holds a backquote, so a match lies in the text.
has_code_example_of(response) ==
    LET s == response.text
    IN \/ IsSubstring("^^^", s)
       \/ \E i \in 1..Len(s) :
             /\ CharAt(s, i) = "^"
             /\ i + 1 <= Len(s) /\ CharAt(s, i + 1) # "^"
             /\ \E j \in (i + 2)..Len(s) : CharAt(s, j) = "^"

\* re.search(r'\d+\.|step \d+|first|second|then|next', response_lower)
has_steps_of(response_lower) ==
    LET s == response_lower.text
    IN \/ \E i \in 1..(Len(s) - 1) : CharAt(s, i) \in Digits /\ CharAt(s, i + 1) = "."
       \/ \E i \in 1..(Len(s) - 5) :
             SubSeq(s, i, i + 4) = "step " /\ CharAt(s, i + 5) \in Digits
       \/ In("first", response_lower)
       \/ In("second", response_lower)
       \/ In("then", response_lower)
       \/ In("next", response_lower)

quality_indicators_of(response) ==
    LET response_lower == response_lower_of(response)
    IN [has_code_example |-> has_code_example_of(response),
        has_steps |-> has_steps_of(response_lower),
        mentions_best_practices |->
            In("best practice", response_lower) \/ In("recommendation", response_lower),
        provides_explanation |-> WordCount(response) > 50,
        mentions_security |->
            In("security", response_lower) \/ In("secure", response_lower),
        actionable |->
            \E word \in {"run", "execute", "create", "configure", "set up"} :
                In(word, response_lower)]

\* the keywords compared as they are written, not lower-cased
keywords_found_as_written(expected_keywords, response_lower) ==
    SelectSeq(expected_keywords, LAMBDA kw : In(kw, response_lower))

\* [kw for kw in expected_keywords if kw.lower() in response_lower]
keywords_found_of(expected_keywords, response_lower) ==
    SelectSeq(expected_keywords, LAMBDA kw : In(lower(kw), response_lower))

\* len(keywords_found) / len(expected_keywords) if expected_keywords else 0
keyword_score_of(keywords_found, expected_keywords) ==
    IF expected_keywords # <<>>
    THEN Rat(Len(keywords_found), Len(expected_keywords))
    ELSE Rat(0, 1)

\* the weights of beginner and advanced exchanged
difficulty_weights_reversed(difficulty) ==
    CASE difficulty = "beginner" -> Rat(12, 10)
      [] difficulty = "intermediate" -> Rat(10, 10)
      [] difficulty = "advanced" -> Rat(8, 10)
      [] OTHER -> Rat(10, 10)

\* a label that is not in the table weighted like the lowest level
difficulty_weights_default_lowest(difficulty) ==
    CASE difficulty = "beginner" -> Rat(8, 10)
      [] difficulty = "intermediate" -> Rat(10, 10)
      [] difficulty = "advanced" -> Rat(12, 10)
      [] OTHER -> Rat(8, 10)

\* {"beginner": 0.8, "intermediate": 1.0, "advanced": 1.2}.get(difficulty, 1.0)
difficulty_weights_of(difficulty) ==
    CASE difficulty = "beginner" -> Rat(8, 10)
      [] difficulty = "intermediate" -> Rat(10, 10)
      [] difficulty = "advanced" -> Rat(12, 10)
      [] OTHER -> Rat(10, 10)

\* the two factors 0.6 and 0.4 exchanged
overall_score_swapped(keyword_score, quality_score, weight) ==
    RatMul(RatAdd(RatMul(keyword_score, Rat(4, 10)), RatMul(quality_score, Rat(6, 10))),
           weight)

\* (keyword_score * 0.6 + quality_score * 0.4) * weight
overall_score_of(keyword_score, quality_score, weight) ==
    RatMul(RatAdd(RatMul(keyword_score, Rat(6, 10)), RatMul(quality_score, Rat(4, 10))),
           weight)

\* evaluate_response_accuracy up to the difficulty weight
accuracy_breakdown(response, expected_keywords) ==
    LET response_lower == response_lower_of(response)
        keywords_found == keywords_found_of(expected_keywords, response_lower)
        quality_indicators == quality_indicators_of(response)
    IN [keyword_score |-> keyword_score_of(keywords_found, expected_keywords),
        keywords_found |-> keywords_found,
        keywords_missed |->
            SelectSeq(expected_keywords,
                      LAMBDA kw : \A i \in DOMAIN keywords_found : keywords_found[i] # kw),
        quality_score |->
            Rat(Cardinality({f \in DOMAIN quality_indicators : quality_indicators[f]}),
                Cardinality(DOMAIN quality_indicators)),
        quality_indicators |-> quality_indicators]

\* the dictionary evaluate_response_accuracy returns
evaluate_response_accuracy_result(breakdown, difficulty) ==
    [keyword_score |-> breakdown.keyword_score,
     keywords_found |-> breakdown.keywords_found,
     keywords_missed |-> breakdown.keywords_missed,
     quality_score |-> breakdown.quality_score,
     quality_indicators |-> breakdown.quality_indicators,
     overall_score |->
         RatMin(overall_score_of(breakdown.keyword_score, breakdown.quality_score,
                                 difficulty_weights_of(difficulty)),
                Rat(1, 1)),
     difficulty |-> difficulty]

evaluate_response_accuracy(response, expected_keywords, difficulty) ==
    evaluate_response_accuracy_result(accuracy_breakdown(response, expected_keywords),
                                      difficulty)

---------------------------------------------------------------------------
(* Inputs of the scorers *)

\* pieces of model output a response text is put together from
Fragments ==
    <<"1. First step - 2. next 3. then kubectl apply -f deployment.yaml service.yaml ingress.yaml recreate helm spec patch probe labels limits",
      "tls sla rbac audit backup alerts gitops quotas logging; load balancer, traffic routing, endpoint",
      "Finally use Docker Ingress, Security",
      "Best Practice: first run ^kubectl create secret^ * testing",
      " \n">>

\* the chosen fragments, in the order of Fragments, joined by single spaces
RECURSIVE JoinFrom(_, _)
JoinFrom(chosen, i) ==
    IF i > Len(Fragments) THEN ""
    ELSE IF i \notin chosen THEN JoinFrom(chosen, i + 1)
    ELSE IF \E j \in chosen : j > i
         THEN Fragments[i] \o " " \o JoinFrom(chosen, i + 1)
         ELSE Fragments[i]

ResponseTexts ==
    {JoinFrom(chosen, 1) :
       chosen \in {c \in SUBSET (1..Len(Fragments)) : Cardinality(c) <= MaxFrags}}

\* number of filler words after the text
FillerCounts == {0, 100, 200}

Responses == [text : ResponseTexts, filler : FillerCounts]

KeywordPool == {"service", "Ingress", ""}

\* lists of distinct keywords
KeywordLists ==
    UNION {{k \in [1..n -> KeywordPool] : \A i, j \in 1..n : k[i] = k[j] => i = j} :
             n \in 0..MaxKeywords}

\* the labels of the two multiplier tables
Difficulties == {"basic", "beginner", "intermediate", "advanced"}

---------------------------------------------------------------------------
(* State *)

VARIABLES
    response,      \* argument of the scorer call
    keywords,      \* argument of the scorer call
    difficulty,    \* argument of the scorer call
    called,        \* "none", or the scorer that was called
    ret            \* what the call returned

\* OllamaDevOpsEvaluator.run_evaluation
VARIABLES
    pc_ollama,     \* where run_evaluation is
    question_index, \* number of the test question of the loop, from 1
    results,       \* the list of result entries
    total_time,    \* sum of the response times, in seconds
    ollama_calls,  \* what the ollama process did at each model call so far
    saved_reports, \* the report files written, each with the list dumped
    printed_summary \* what print_summary has printed

\* DevOpsModelEvaluator.run_comprehensive_evaluation
VARIABLES
    pc_devops,        \* where run_comprehensive_evaluation is
    use_api,          \* self.use_api
    category_index,   \* position in self.test_categories, from 1
    case_index,       \* number of the test case in the category, from 1
    category_scores,  \* overall scores of the current category
    category_times,   \* generation times of the current category
    category_tokens,  \* token counts of the current category
    category_results, \* summary of each category with a score
    all_scores,       \* overall scores of all categories
    self_results,     \* self.results
    model_calls,      \* what the model did at each generate_response so far
    saved_results,    \* the result files written, each with the dict dumped
    startup_calls     \* what the health check and the model loading met

scorer_vars == <<response, keywords, difficulty, called, ret>>
ollama_vars ==
    <<pc_ollama, question_index, results, total_time, ollama_calls, saved_reports,
      printed_summary>>
devops_vars ==
    <<pc_devops, use_api, category_index, case_index, category_scores,
      category_times, category_tokens, category_results, all_scores,
      self_results, model_calls, saved_results, startup_calls>>

\* DevOpsDatasetBuilder.format_for_qwen3_training
VARIABLES
    pc_format,          \* where format_for_qwen3_training is
    examples,           \* the argument: the list of examples
    example_index,      \* number of the example of the loop, from 1
    formatted_examples  \* the list of formatted records

\* train_model and the directory OUTPUT_DIR
VARIABLES
    pc_train,           \* where train_model is
    output_dir,         \* OUTPUT_DIR: whether it exists, the names of its entries
    latest_checkpoint,  \* the local variable of train_model
    global_step         \* the step the trainer is at

\* interactive_chat of the chat client
VARIABLES
    pc_chat,        \* where interactive_chat is
    max_length,     \* the local variable max_length
    temperature,    \* the local variable temperature
    typed,          \* the lines input() has returned so far
    chat_requests,  \* the payloads posted to /chat so far
    chat_output     \* the status lines printed so far

\* create_devops_ollama_model and create_devops_shortcuts
VARIABLES
    pc_create,       \* where the model creator is
    temp_files,      \* the temporary Modelfiles that exist
    temp_created,    \* how many temporary Modelfiles were created so far
    modelfile_path,  \* the local variable modelfile_path
    shortcut_index,  \* position in the shortcuts dictionary, from 1
    create_calls,    \* what each ollama process started so far did
    create_ended     \* how each of the two functions ended

\* load_devops_datasets
VARIABLES
    pc_datasets,     \* where load_devops_datasets is
    source_index,    \* number of the external source, from 1
    all_examples,    \* the list all_examples, as its runs of examples
    datasets_info    \* the list datasets_info

\* test_training_pipeline and its callers
VARIABLES
    pc_pipeline,     \* where the pipeline test is
    pipeline_calls,  \* what each stage of the pipeline did so far
    pipeline_ret,    \* what test_training_pipeline and test_upload_to_hub returned
    test_results,    \* the file test_results.json
    pipeline_output  \* what the caller reports

format_vars == <<pc_format, examples, example_index, formatted_examples>>
train_vars == <<pc_train, output_dir, latest_checkpoint, global_step>>
chat_vars == <<pc_chat, max_length, temperature, typed, chat_requests, chat_output>>
create_vars ==
    <<pc_create, temp_files, temp_created, modelfile_path, shortcut_index,
      create_calls, create_ended>>
datasets_vars == <<pc_datasets, source_index, all_examples, datasets_info>>
pipeline_vars ==
    <<pc_pipeline, pipeline_calls, pipeline_ret, test_results, pipeline_output>>
script_vars == <<chat_vars, create_vars, datasets_vars, pipeline_vars>>
tool_vars == <<format_vars, train_vars, script_vars>>
vars == <<scorer_vars, ollama_vars, devops_vars, tool_vars>>

\* OUTPUT_DIR does not exist; OUTPUT_DIR with its entries
Absent == [exists |-> FALSE, entries |-> {}]

Directory(entries) == [exists |-> TRUE, entries |-> entries]

\* format_for_qwen3_training not called
FormatIdle ==
    /\ pc_format = "not called"
    /\ examples = <<>>
    /\ example_index = 0
    /\ formatted_examples = <<>>

\* train_model not called, nothing trained
TrainIdle ==
    /\ pc_train = "not called"
    /\ output_dir = Absent
    /\ latest_checkpoint = [none |-> TRUE]
    /\ global_step = 0

\* interactive_chat not called
ChatIdle ==
    /\ pc_chat = "not called"
    /\ max_length = 0
    /\ temperature = [num |-> 0, den |-> 1]
    /\ typed = <<>>
    /\ chat_requests = <<>>
    /\ chat_output = <<>>

\* the model creator not called
CreateIdle ==
    /\ pc_create = "not called"
    /\ temp_files = {}
    /\ temp_created = 0
    /\ modelfile_path = 0
    /\ shortcut_index = 0
    /\ create_calls = <<>>
    /\ create_ended = <<>>

\* load_devops_datasets not called
DatasetsIdle ==
    /\ pc_datasets = "not called"
    /\ source_index = 0
    /\ all_examples = <<>>
    /\ datasets_info = <<>>

\* the pipeline test not called
PipelineIdle ==
    /\ pc_pipeline = "not called"
    /\ pipeline_calls = <<>>
    /\ pipeline_ret = <<>>
    /\ test_results = [exists |-> FALSE]
    /\ pipeline_output = <<>>

ScriptsIdle == ChatIdle /\ CreateIdle /\ DatasetsIdle /\ PipelineIdle

core_vars == <<scorer_vars, ollama_vars, devops_vars, format_vars, train_vars>>

ToolsIdle == FormatIdle /\ TrainIdle /\ ScriptsIdle

NotCalled == [pending |-> TRUE]

\* no scorer call is being looked at
ScorerIdle ==
    /\ response = [text |-> "", filler |-> 0]
    /\ keywords = <<>>
    /\ difficulty = "not given"
    /\ called = "none"
    /\ ret = NotCalled

\* print_summary not called
NotPrinted == [printed |-> FALSE]

\* OllamaDevOpsEvaluator() constructed, run_evaluation not called
OllamaConstructed ==
    /\ pc_ollama = "constructed"
    /\ question_index = 0
    /\ results = <<>>
    /\ total_time = 0
    /\ ollama_calls = <<>>
    /\ saved_reports = <<>>
    /\ printed_summary = NotPrinted

\* self.results of DevOpsModelEvaluator.__init__
InitialResults == [performance |-> <<>>, accuracy |-> <<>>, detailed_responses |-> <<>>]

\* DevOpsModelEvaluator(use_api = flag) constructed, run_comprehensive_evaluation
\* not called
DevOpsConstructed(flag) ==
    /\ pc_devops = "constructed"
    /\ use_api = flag
    /\ category_index = 0
    /\ case_index = 0
    /\ category_scores = <<>>
    /\ category_times = <<>>
    /\ category_tokens = <<>>
    /\ category_results = <<>>
    /\ all_scores = <<>>
    /\ self_results = InitialResults
    /\ model_calls = <<>>
    /\ saved_results = <<>>
    /\ startup_calls = <<>>

\* the evaluators and the dataset and training tools, none of them called
OthersIdle ==
    /\ ScorerIdle
    /\ OllamaConstructed
    /\ DevOpsConstructed(FALSE)
    /\ FormatIdle
    /\ TrainIdle

---------------------------------------------------------------------------
(* The scorers called on their own *)

Init ==
    /\ response \in Responses
    /\ keywords \in KeywordLists
    /\ difficulty = "not given"
    /\ called = "none"
    /\ ret = NotCalled
    /\ OllamaConstructed
    /\ DevOpsConstructed(FALSE)
    /\ ToolsIdle

\* a call of OllamaDevOpsEvaluator.evaluate_response, with some difficulty
EvaluateResponse ==
    /\ called = "none"
    /\ \E breakdown \in {score_breakdown(response, keywords)} :
          \E d \in Difficulties :
             /\ difficulty' = d
             /\ ret' = evaluate_response_result(breakdown, d)
    /\ called' = "evaluate_response"
    /\ UNCHANGED <<response, keywords, ollama_vars, devops_vars, tool_vars>>

\* a call of DevOpsModelEvaluator.evaluate_response_accuracy, with some
\* difficulty
EvaluateResponseAccuracy ==
    /\ called = "none"
    /\ \E breakdown \in {accuracy_breakdown(response, keywords)} :
          \E d \in Difficulties :
             /\ difficulty' = d
             /\ ret' = evaluate_response_accuracy_result(breakdown, d)
    /\ called' = "evaluate_response_accuracy"
    /\ UNCHANGED <<response, keywords, ollama_vars, devops_vars, tool_vars>>

Next == EvaluateResponse \/ EvaluateResponseAccuracy

Spec == Init /\ [][Next]_vars

\* responses of at most two fragments, for the calls that are compared with
\* the call on a longer response
ShortResponses ==
    [text : {JoinFrom(chosen, 1) :
               chosen \in {c \in SUBSET (1..Len(Fragments)) : Cardinality(c) <= 2}},
     filler : FillerCounts]

InitShort ==
    /\ response \in ShortResponses
    /\ keywords \in KeywordLists
    /\ difficulty = "not given"
    /\ called = "none"
    /\ ret = NotCalled
    /\ OllamaConstructed
    /\ DevOpsConstructed(FALSE)
    /\ ToolsIdle

SpecShort == InitShort /\ [][Next]_vars

---------------------------------------------------------------------------
(* OllamaDevOpsEvaluator: query_ollama and run_evaluation *)

\* self.test_questions
test_questions_all ==
    <<
      [category |-> "Kubernetes Deployment",
       question |-> "How would you implement a blue-green deployment strategy in Kubernetes?",
       keywords |->
         <<"blue-green", "deployment", "service", "ingress", "traffic",
           "rollback">>,
       difficulty |-> "intermediate"],
      [category |-> "Infrastructure as Code",
       question |-> "What are the best practices for organizing Terraform modules in a multi-environment setup?",
       keywords |->
         <<"terraform", "modules", "environment", "state", "workspace",
           "structure">>,
       difficulty |-> "intermediate"],
      [category |-> "CI/CD Pipeline",
       question |-> "How would you set up automated testing and deployment for a microservices architecture?",
       keywords |->
         <<"pipeline", "microservices", "testing", "deployment", "automation",
           "docker">>,
       difficulty |-> "advanced"],
      [category |-> "Monitoring & Observability",
       question |-> "What metrics would you monitor for a production Kubernetes cluster?",
       keywords |->
         <<"metrics", "monitoring", "prometheus", "grafana", "alerts",
           "observability">>,
       difficulty |-> "intermediate"],
      [category |-> "Security & Compliance",
       question |-> "How would you implement security scanning in your DevOps pipeline?",
       keywords |->
         <<"security", "scanning", "vulnerability", "compliance", "pipeline",
           "SAST">>,
       difficulty |-> "advanced"],
      [category |-> "Troubleshooting",
       question |-> "A Kubernetes pod is in CrashLoopBackOff state. How would you troubleshoot this?",
       keywords |->
         <<"crashloopbackoff", "troubleshoot", "logs", "describe", "events",
           "kubectl">>,
       difficulty |-> "intermediate"],
      [category |-> "Docker & Containers",
       question |-> "How would you optimize a Docker image for production deployment?",
       keywords |->
         <<"docker", "optimize", "image", "production", "multi-stage", "size",
           "layers">>,
       difficulty |-> "intermediate"] >>
\* the test questions of the run
test_questions == SubSeq(test_questions_all, 1, Min(MaxQuestions, Len(test_questions_all)))

\* an optional string: None, or a str
None == [none |-> TRUE]
Str(s) == [none |-> FALSE, str |-> s]
\* the truth value Python gives an optional string
Truthy(v) == ~v.none /\ v.str # ""

\* str.strip()
RECURSIVE lstrip(_)
lstrip(s) == IF s # "" /\ CharAt(s, 1) \in Whitespace THEN lstrip(Tail(s)) ELSE s
RECURSIVE rstrip(_)
rstrip(s) ==
    IF s # "" /\ CharAt(s, Len(s)) \in Whitespace
    THEN rstrip(SubSeq(s, 1, Len(s) - 1))
    ELSE s
strip(s) == rstrip(lstrip(s))

\* what `ollama run` prints when it exits with 0
Stdouts ==
    {"",
     " \n",
     "1. First create the blue-green Deployment, then switch the Service selector.\n"}
\* what `ollama run` writes to stderr when it exits with another code
Stderrs == {"Error: model not found"}
\* seconds a call of `ollama run` that ends within the timeout takes
ElapsedTimes == {1, 2}

\* what subprocess.run does in query_ollama: the process ends within the
\* timeout with return code 0 or 1, subprocess.TimeoutExpired is raised, or
\* another exception is raised
ProcessOutcomes ==
    [kind : {"completed"}, returncode : {0}, stdout : Stdouts, stderr : {""},
     elapsed : ElapsedTimes]
    \cup [kind : {"completed"}, returncode : {1}, stdout : {""}, stderr : Stderrs,
          elapsed : ElapsedTimes]
    \cup [kind : {"timeout"}]
    \cup [kind : {"exception"}, message : {"No such file or directory: ollama"}]

\* every completed process taken for a success, whatever its return code
query_ollama_any_returncode(outcome) ==
    CASE outcome.kind = "completed" ->
            [response |-> strip(outcome.stdout), response_time |-> outcome.elapsed,
             error |-> None]
      [] outcome.kind = "timeout" ->
            [response |-> "", response_time |-> 60,
             error |-> Str("Timeout after 60 seconds")]
      [] outcome.kind = "exception" ->
            [response |-> "", response_time |-> 0,
             error |-> Str("Exception: " \o outcome.message)]

\* the standard output returned as it was written
query_ollama_untrimmed(outcome) ==
    CASE outcome.kind = "completed" /\ outcome.returncode = 0 ->
            [response |-> outcome.stdout, response_time |-> outcome.elapsed,
             error |-> None]
      [] outcome.kind = "completed" /\ outcome.returncode # 0 ->
            [response |-> "", response_time |-> outcome.elapsed,
             error |-> Str("Ollama error: " \o outcome.stderr)]
      [] outcome.kind = "timeout" ->
            [response |-> "", response_time |-> 60,
             error |-> Str("Timeout after 60 seconds")]
      [] outcome.kind = "exception" ->
            [response |-> "", response_time |-> 0,
             error |-> Str("Exception: " \o outcome.message)]

\* query_ollama, given what the process does
query_ollama(outcome) ==
    CASE outcome.kind = "completed" /\ outcome.returncode = 0 ->
            [response |-> strip(outcome.stdout), response_time |-> outcome.elapsed,
             error |-> None]
      [] outcome.kind = "completed" /\ outcome.returncode # 0 ->
            [response |-> "", response_time |-> outcome.elapsed,
             error |-> Str("Ollama error: " \o outcome.stderr)]
      [] outcome.kind = "timeout" ->
            [response |-> "", response_time |-> 60,
             error |-> Str("Timeout after 60 seconds")]
      [] outcome.kind = "exception" ->
            [response |-> "", response_time |-> 0,
             error |-> Str("Exception: " \o outcome.message)]

\* the evaluation run_evaluation stores for a result of query_ollama
evaluation_of(result, test) ==
    IF Truthy(result.error)
    THEN [total_score |-> Rat(0, 1)]
    ELSE evaluate_response([text |-> result.response, filler |-> 0],
                           test.keywords, test.difficulty)

\* the thresholds of the overall rating
rating_of(avg_score) ==
    IF RatLE(Rat(75, 1), avg_score) THEN "EXCELLENT"
    ELSE IF RatLE(Rat(60, 1), avg_score) THEN "GOOD"
    ELSE IF RatLE(Rat(45, 1), avg_score) THEN "FAIR"
    ELSE "NEEDS IMPROVEMENT"

RECURSIVE RatMaxOf(_)
RatMaxOf(scores) ==
    IF Len(scores) = 1 THEN scores[1] ELSE RatMax(Head(scores), RatMaxOf(Tail(scores)))

\* every result taken for a success
every_result(entries) == entries

\* the results the statistics are computed from: those with a total_score
\* greater than 0
positive_results(entries) ==
    SelectSeq(entries, LAMBDA r : RatLT(Rat(0, 1), r.evaluation.total_score))

\* the figures print_summary prints
print_summary(entries, time) ==
    LET positive == positive_results(entries)
        scores == [k \in DOMAIN positive |-> positive[k].evaluation.total_score]
        timed == SelectSeq(entries, LAMBDA r : r.response_time > 0)
        response_times == [k \in DOMAIN timed |-> timed[k].response_time]
        errors == SelectSeq(entries, LAMBDA r : Truthy(r.error))
        cat_scores(cat) ==
            LET of_cat == SelectSeq(positive, LAMBDA r : r.category = cat)
            IN [k \in DOMAIN of_cat |-> of_cat[k].evaluation.total_score]
    IN IF scores # <<>>
       THEN [printed |-> TRUE,
             successful |-> TRUE,
             average_score |-> RatMean(scores),
             best_score |-> RatMaxOf(scores),
             success_count |-> Len(scores),
             result_count |-> Len(entries),
             average_response_time |->
                 IF response_times = <<>> THEN [raised |-> "StatisticsError"]
                 ELSE Rat(Sum(response_times), Len(response_times)),
             total_time |-> time,
             error_count |-> Len(errors),
             category_results |->
                 {[category |-> cat, average |-> RatMean(cat_scores(cat))] :
                    cat \in {entries[k].category :
                               k \in {j \in DOMAIN entries : cat_scores(entries[j].category) # <<>>}}},
             rating |-> rating_of(RatMean(scores))]
       ELSE [printed |-> TRUE, successful |-> FALSE]

\* no scorer is called on its own, the other evaluator is constructed only
InitOllama ==
    /\ ScorerIdle
    /\ OllamaConstructed
    /\ DevOpsConstructed(FALSE)
    /\ ToolsIdle

\* run_evaluation up to the loop: check_ollama_available says whether the
\* model is there; if it is not, run_evaluation returns
RunEvaluationBegin ==
    /\ pc_ollama = "constructed"
    /\ \E available \in BOOLEAN :
          IF available
          THEN /\ pc_ollama' = "loop"
               /\ question_index' = 1
               /\ results' = <<>>
               /\ total_time' = 0
          ELSE /\ pc_ollama' = "returned"
               /\ UNCHANGED <<question_index, results, total_time>>
    /\ UNCHANGED <<ollama_calls, saved_reports, printed_summary, scorer_vars, devops_vars, tool_vars>>

\* the loop takes the next test question and starts `ollama run`
QueryOllamaCall ==
    /\ pc_ollama = "loop"
    /\ question_index <= Len(test_questions)
    /\ pc_ollama' = "query"
    /\ UNCHANGED <<question_index, results, total_time, ollama_calls,
                   saved_reports, printed_summary, scorer_vars, devops_vars,
                   tool_vars>>

\* the loop putting each new entry in front of the earlier ones
QueryOllamaReturnPrepending ==
    /\ pc_ollama = "query"
    /\ \E outcome \in ProcessOutcomes :
          LET test == test_questions[question_index]
              result == query_ollama(outcome)
          IN /\ results' = <<[question |-> test.question,
                              category |-> test.category,
                              difficulty |-> test.difficulty,
                              response |-> result.response,
                              evaluation |-> evaluation_of(result, test),
                              response_time |-> result.response_time,
                              error |-> result.error]>> \o results
             /\ total_time' = total_time + result.response_time
             /\ ollama_calls' = Append(ollama_calls, outcome)
    /\ question_index' = question_index + 1
    /\ pc_ollama' = "loop"
    /\ UNCHANGED <<saved_reports, printed_summary, scorer_vars, devops_vars,
                   tool_vars>>

\* the model call ends, query_ollama returns, the response is scored and the
\* entry appended
QueryOllamaReturn ==
    /\ pc_ollama = "query"
    /\ \E outcome \in ProcessOutcomes :
          LET test == test_questions[question_index]
              result == query_ollama(outcome)
          IN /\ results' = Append(results,
                    [question |-> test.question,
                     category |-> test.category,
                     difficulty |-> test.difficulty,
                     response |-> result.response,
                     evaluation |-> evaluation_of(result, test),
                     response_time |-> result.response_time,
                     error |-> result.error])
             /\ total_time' = total_time + result.response_time
             /\ ollama_calls' = Append(ollama_calls, outcome)
    /\ question_index' = question_index + 1
    /\ pc_ollama' = "loop"
    /\ UNCHANGED <<saved_reports, printed_summary, scorer_vars, devops_vars,
                   tool_vars>>

\* the report written inside the loop, after every test question
RunEvaluationEndInsideLoop ==
    /\ pc_ollama = "loop"
    /\ Len(saved_reports) < Len(results)
    /\ printed_summary' = print_summary(results, total_time)
    /\ saved_reports' = Append(saved_reports, results)
    /\ pc_ollama' = IF question_index > Len(test_questions) THEN "done" ELSE "loop"
    /\ UNCHANGED <<question_index, results, total_time, ollama_calls,
                   scorer_vars, devops_vars, tool_vars>>

\* after the last test question: print_summary, then the report is written
RunEvaluationEnd ==
    /\ pc_ollama = "loop"
    /\ question_index > Len(test_questions)
    /\ printed_summary' = print_summary(results, total_time)
    /\ saved_reports' = Append(saved_reports, results)
    /\ pc_ollama' = "done"
    /\ UNCHANGED <<question_index, results, total_time, ollama_calls,
                   scorer_vars, devops_vars, tool_vars>>

NextOllama ==
    RunEvaluationBegin \/ QueryOllamaCall \/ QueryOllamaReturn \/ RunEvaluationEnd

SpecOllama == InitOllama /\ [][NextOllama]_vars

---------------------------------------------------------------------------
(* DevOpsModelEvaluator: generate_response and run_comprehensive_evaluation *)

\* self.test_categories, in the order of the dictionary
test_categories_all ==
    <<[category |-> "kubernetes", category_name |-> "Kubernetes & Container Orchestration"],
      [category |-> "docker", category_name |-> "Docker & Containerization"],
      [category |-> "cicd", category_name |-> "CI/CD Pipelines"],
      [category |-> "iac", category_name |-> "Infrastructure as Code"],
      [category |-> "monitoring", category_name |-> "Monitoring & Observability"],
      [category |-> "security", category_name |-> "Security & Compliance"],
      [category |-> "troubleshooting", category_name |-> "Troubleshooting & Debugging"]>>

\* get_devops_test_questions()
devops_test_questions_all ==
    [
      kubernetes |->
        <<[question |-> "How do I deploy a simple web application to Kubernetes with auto-scaling?",
          expected_keywords |->
            <<"deployment", "service", "hpa", "replicas", "kubectl">>,
          difficulty |-> "intermediate"],
         [question |-> "My Kubernetes pod is stuck in Pending state. How do I troubleshoot this?",
          expected_keywords |->
            <<"describe", "events", "resources", "node", "scheduling">>,
          difficulty |-> "intermediate"],
         [question |-> "How do I set up ingress controller with SSL termination?",
          expected_keywords |->
            <<"ingress", "nginx", "tls", "certificate", "secret">>,
          difficulty |-> "advanced"]>>,
      docker |->
        <<[question |-> "How do I create a multi-stage Docker build for a Node.js application?",
          expected_keywords |->
            <<"FROM", "COPY", "npm install", "multi-stage", "alpine">>,
          difficulty |-> "intermediate"],
         [question |-> "What are Docker security best practices for production?",
          expected_keywords |->
            <<"non-root", "minimal", "scan", "secrets", "read-only">>,
          difficulty |-> "advanced"],
         [question |-> "How do I optimize Docker image size?",
          expected_keywords |->
            <<"alpine", "multi-stage", "cache", "layers", ".dockerignore">>,
          difficulty |-> "beginner"]>>,
      cicd |->
        <<[question |-> "How do I set up a CI/CD pipeline with GitHub Actions for a microservice?",
          expected_keywords |->
            <<"workflow", "build", "test", "deploy", "artifact">>,
          difficulty |-> "intermediate"],
         [question |-> "How do I implement blue-green deployment strategy?",
          expected_keywords |->
            <<"blue-green", "traffic", "switch", "rollback", "zero-downtime">>,
          difficulty |-> "advanced"],
         [question |-> "What are the stages of a typical CI/CD pipeline?",
          expected_keywords |->
            <<"build", "test", "security", "deploy", "monitor">>,
          difficulty |-> "beginner"]>>,
      iac |->
        <<[question |-> "How do I create an AWS VPC with public and private subnets using Terraform?",
          expected_keywords |->
            <<"vpc", "subnet", "route", "gateway", "terraform">>,
          difficulty |-> "intermediate"],
         [question |-> "How do I manage Terraform state securely?",
          expected_keywords |->
            <<"backend", "s3", "dynamodb", "encryption", "locking">>,
          difficulty |-> "advanced"],
         [question |-> "What is Infrastructure as Code and why is it important?",
          expected_keywords |->
            <<"version control", "reproducible", "automation", "consistency">>,
          difficulty |-> "beginner"]>>,
      monitoring |->
        <<[question |-> "How do I set up Prometheus and Grafana for Kubernetes monitoring?",
          expected_keywords |->
            <<"prometheus", "grafana", "metrics", "scrape", "dashboard">>,
          difficulty |-> "intermediate"],
         [question |-> "How do I create effective alerts for my application?",
          expected_keywords |->
            <<"sli", "slo", "threshold", "alert", "runbook">>,
          difficulty |-> "advanced"],
         [question |-> "What metrics should I monitor for a web application?",
          expected_keywords |->
            <<"latency", "error rate", "throughput", "saturation">>,
          difficulty |-> "beginner"]>>,
      security |->
        <<[question |-> "How do I implement security scanning in my CI/CD pipeline?",
          expected_keywords |->
            <<"sast", "dast", "dependency", "container", "vulnerability">>,
          difficulty |-> "intermediate"],
         [question |-> "How do I secure secrets management in Kubernetes?",
          expected_keywords |->
            <<"secrets", "vault", "encryption", "rbac", "service account">>,
          difficulty |-> "advanced"],
         [question |-> "What are container security best practices?",
          expected_keywords |->
            <<"scan", "minimal", "non-root", "read-only", "network">>,
          difficulty |-> "beginner"]>>,
      troubleshooting |->
        <<[question |-> "My application is running slowly. How do I diagnose performance issues?",
          expected_keywords |->
            <<"profiling", "metrics", "logs", "bottleneck", "monitoring">>,
          difficulty |-> "intermediate"],
         [question |-> "How do I debug network connectivity issues in Kubernetes?",
          expected_keywords |->
            <<"dns", "service", "network policy", "trace", "connectivity">>,
          difficulty |-> "advanced"],
         [question |-> "My deployment failed. What are the first steps to troubleshoot?",
          expected_keywords |->
            <<"logs", "events", "status", "describe", "rollback">>,
          difficulty |-> "beginner"]>> ]
\* the categories of the run
test_categories ==
    SubSeq(test_categories_all, 1, Min(MaxCategories, Len(test_categories_all)))

\* the test cases of the run in a category
test_cases_of(category) ==
    LET cases == devops_test_questions_all[category]
    IN SubSeq(cases, 1, Min(MaxCases, Len(cases)))

\* the texts the model answers with
ModelTexts ==
    {"First run ^kubectl apply^ to create the deployment."}
\* status codes of the chat endpoint other than 200
ErrorStatusCodes == {500}
\* seconds a generation takes, and the tokens it gives
GenerationTimes == {2}
TokenCounts == {40}

\* what the chat endpoint does in generate_response_api: it answers with
\* status 200 and a result, it answers with another status, or requests.post
\* raises (connection refused, timeout after 60 seconds)
ApiOutcomes ==
    [kind : {"status"}, status_code : {200}, response : ModelTexts,
     generation_time : GenerationTimes, tokens_generated : TokenCounts,
     elapsed : GenerationTimes]
    \cup [kind : {"status"}, status_code : ErrorStatusCodes, elapsed : GenerationTimes]
    \cup [kind : {"raises"}, message : {"Read timed out."}, elapsed : GenerationTimes]

\* what the local model does in generate_response_local: it generates a
\* text, or tokenizing or generating raises
LocalOutcomes ==
    [kind : {"generated"}, response : ModelTexts, elapsed : GenerationTimes,
     tokens_generated : TokenCounts]
    \cup [kind : {"raises"}, message : {"CUDA out of memory"}]

\* generate_response_api: the tuple returned; it never raises
generate_response_api(outcome) ==
    CASE outcome.kind = "status" /\ outcome.status_code = 200 ->
            [raised |-> FALSE, response |-> outcome.response,
             gen_time |-> outcome.generation_time, tokens |-> outcome.tokens_generated]
      [] outcome.kind = "status" /\ outcome.status_code # 200 ->
            [raised |-> FALSE,
             response |-> "API Error: " \o ToString(outcome.status_code),
             gen_time |-> outcome.elapsed, tokens |-> 0]
      [] outcome.kind = "raises" ->
            [raised |-> FALSE, response |-> "API Error: " \o outcome.message,
             gen_time |-> outcome.elapsed, tokens |-> 0]

\* generate_response_local: the tuple returned, or the exception raised
generate_response_local(outcome) ==
    CASE outcome.kind = "generated" ->
            [raised |-> FALSE, response |-> strip(outcome.response),
             gen_time |-> outcome.elapsed, tokens |-> outcome.tokens_generated]
      [] outcome.kind = "raises" -> [raised |-> TRUE, message |-> outcome.message]

\* generate_response
generate_response(api, outcome) ==
    IF api THEN generate_response_api(outcome) ELSE generate_response_local(outcome)

\* the outcomes generate_response can meet
ModelOutcomes(api) == IF api THEN ApiOutcomes ELSE LocalOutcomes

\* the entry appended to self.results["detailed_responses"]
detailed_response_of(category, question, generated, accuracy) ==
    [category |-> category,
     question |-> question,
     response |-> generated.response,
     accuracy |-> accuracy,
     performance |->
        [generation_time |-> generated.gen_time,
         tokens_generated |-> generated.tokens,
         tokens_per_second |->
            IF generated.gen_time > 0
            THEN Rat(generated.tokens, generated.gen_time)
            ELSE Rat(0, 1)]]

\* the summary of a category with at least one score
category_summary_of(scores, times, tokens) ==
    [average_score |-> RatMean(scores),
     average_time |-> Rat(Sum(times), Len(times)),
     average_tokens |-> Rat(Sum(tokens), Len(tokens)),
     total_tests |-> Len(scores)]

\* no scorer is called on its own, the other evaluator is constructed only
InitDevOps ==
    /\ ScorerIdle
    /\ OllamaConstructed
    /\ \E flag \in BOOLEAN : DevOpsConstructed(flag)
    /\ ToolsIdle

\* what GET /health does in check_api_server: the server answers with a
\* status, or requests.get raises (connection refused, timeout after 5 s)
HealthOutcomes ==
    [kind : {"status"}, status_code : {200} \cup ErrorStatusCodes]
    \cup [kind : {"raises"}, message : {"Connection refused"}]

\* what from_pretrained does in load_model_local
LoadOutcomes ==
    [kind : {"loaded"}] \cup [kind : {"raises"}, message : {"adapter not found"}]

\* a health check that takes every answer of the server for healthy
check_api_server_any_status(outcome) == outcome.kind = "status"

\* check_api_server: True for status 200 only
check_api_server(outcome) == outcome.kind = "status" /\ outcome.status_code = 200

\* load_model_local: True when nothing raises
load_model_local(outcome) == outcome.kind = "loaded"

\* the calls of check_api_server and load_model_local, in the order made
StartupCall(name, outcome) == [call |-> name, outcome |-> outcome]

\* run_comprehensive_evaluation up to the loop over the categories: in API
\* mode check_api_server, falling back to local mode; in local mode
\* load_model_local, returning when the model cannot be loaded
RunComprehensiveBegin ==
    /\ pc_devops = "constructed"
    /\ \E health \in HealthOutcomes, load \in LoadOutcomes :
          LET checked == IF use_api
                         THEN <<StartupCall("check_api_server", health)>>
                         ELSE <<>>
              api == use_api /\ check_api_server(health)
              loading == IF ~api
                         THEN <<StartupCall("load_model_local", load)>>
                         ELSE <<>>
          IN /\ use_api' = api
             /\ startup_calls' = checked \o loading
             /\ IF api \/ load_model_local(load)
                THEN /\ pc_devops' = "category"
                     /\ category_index' = 1
                     /\ category_results' = <<>>
                     /\ all_scores' = <<>>
                ELSE /\ pc_devops' = "returned"
                     /\ UNCHANGED <<category_index, category_results, all_scores>>
    /\ UNCHANGED <<case_index, category_scores, category_times, category_tokens,
                   self_results, model_calls, saved_results, scorer_vars,
                   ollama_vars, tool_vars>>

\* the loop takes the next category: its lists start empty; a category
\* without test questions is skipped
BeginCategory ==
    /\ pc_devops = "category"
    /\ category_index <= Len(test_categories)
    /\ IF test_categories[category_index].category \in DOMAIN devops_test_questions_all
       THEN /\ category_scores' = <<>>
            /\ category_times' = <<>>
            /\ category_tokens' = <<>>
            /\ case_index' = 1
            /\ pc_devops' = "case"
            /\ UNCHANGED category_index
       ELSE /\ category_index' = category_index + 1
            /\ UNCHANGED <<category_scores, category_times, category_tokens,
                           case_index, pc_devops>>
    /\ UNCHANGED <<startup_calls, use_api, category_results, all_scores, self_results,
                   model_calls, saved_results, scorer_vars, ollama_vars, tool_vars>>

\* the inner loop takes the next test case and calls generate_response
GenerateResponseCall ==
    /\ pc_devops = "case"
    /\ case_index <= Len(test_cases_of(test_categories[category_index].category))
    /\ pc_devops' = "generating"
    /\ UNCHANGED <<startup_calls, use_api, category_index, case_index, category_scores,
                   category_times, category_tokens, category_results, all_scores,
                   self_results, model_calls, saved_results, scorer_vars,
                   ollama_vars, tool_vars>>

\* the loop without the except clause: an exception of generate_response
\* leaves run_comprehensive_evaluation
GenerateResponseReturnUncaught ==
    /\ pc_devops = "generating"
    /\ \E outcome \in ModelOutcomes(use_api) :
          LET category == test_categories[category_index].category
              test_case == test_cases_of(category)[case_index]
              generated == generate_response(use_api, outcome)
              accuracy ==
                  evaluate_response_accuracy(
                      [text |-> generated.response, filler |-> 0],
                      test_case.expected_keywords, test_case.difficulty)
          IN /\ model_calls' = Append(model_calls,
                    [category |-> category, question |-> test_case.question,
                     outcome |-> outcome])
             /\ IF generated.raised
                THEN /\ pc_devops' = "raised"
                     /\ UNCHANGED <<category_scores, category_times, category_tokens,
                                    all_scores, self_results, case_index>>
                ELSE /\ category_scores' = Append(category_scores, accuracy.overall_score)
                     /\ category_times' = Append(category_times, generated.gen_time)
                     /\ category_tokens' = Append(category_tokens, generated.tokens)
                     /\ all_scores' = Append(all_scores, accuracy.overall_score)
                     /\ self_results' =
                           [self_results EXCEPT !.detailed_responses =
                               Append(@, detailed_response_of(
                                   category, test_case.question, generated, accuracy))]
                     /\ case_index' = case_index + 1
                     /\ pc_devops' = "case"
    /\ UNCHANGED <<startup_calls, use_api, category_index, category_results, saved_results,
                   scorer_vars, ollama_vars, tool_vars>>

\* generate_response returns or raises; a returned text is scored and
\* stored; an exception is printed and the loop goes on with the next case
GenerateResponseReturn ==
    /\ pc_devops = "generating"
    /\ \E outcome \in ModelOutcomes(use_api) :
          LET category == test_categories[category_index].category
              test_case == test_cases_of(category)[case_index]
              generated == generate_response(use_api, outcome)
              accuracy ==
                  evaluate_response_accuracy(
                      [text |-> generated.response, filler |-> 0],
                      test_case.expected_keywords, test_case.difficulty)
          IN /\ model_calls' = Append(model_calls,
                    [category |-> category, question |-> test_case.question,
                     outcome |-> outcome])
             /\ IF generated.raised
                THEN UNCHANGED <<category_scores, category_times, category_tokens,
                                 all_scores, self_results>>
                ELSE /\ category_scores' = Append(category_scores, accuracy.overall_score)
                     /\ category_times' = Append(category_times, generated.gen_time)
                     /\ category_tokens' = Append(category_tokens, generated.tokens)
                     /\ all_scores' = Append(all_scores, accuracy.overall_score)
                     /\ self_results' =
                           [self_results EXCEPT !.detailed_responses =
                               Append(@, detailed_response_of(
                                   category, test_case.question, generated, accuracy))]
    /\ case_index' = case_index + 1
    /\ pc_devops' = "case"
    /\ UNCHANGED <<startup_calls, use_api, category_index, category_results, saved_results,
                   scorer_vars, ollama_vars, tool_vars>>

\* after the last test case of the category: the category summary, when the
\* category has a score
EndCategory ==
    /\ pc_devops = "case"
    /\ case_index > Len(test_cases_of(test_categories[category_index].category))
    /\ category_results' =
          IF category_scores # <<>>
          THEN category_results @@
                  (test_categories[category_index].category :>
                      category_summary_of(category_scores, category_times,
                                          category_tokens))
          ELSE category_results
    /\ category_index' = category_index + 1
    /\ pc_devops' = "category"
    /\ UNCHANGED <<startup_calls, use_api, case_index, category_scores, category_times,
                   category_tokens, all_scores, self_results, model_calls,
                   saved_results, scorer_vars, ollama_vars, tool_vars>>

\* after the last category: the overall results, print_final_report and
\* save_results
RunComprehensiveEnd ==
    /\ pc_devops = "category"
    /\ category_index > Len(test_categories)
    /\ self_results' =
          [self_results EXCEPT
              !.performance = category_results,
              !.accuracy =
                  IF all_scores # <<>>
                  THEN [overall_average |-> RatMean(all_scores),
                        total_tests |-> Len(all_scores)]
                  ELSE @]
    /\ saved_results' = Append(saved_results, self_results')
    /\ pc_devops' = "done"
    /\ UNCHANGED <<startup_calls, use_api, category_index, case_index, category_scores,
                   category_times, category_tokens, category_results, all_scores,
                   model_calls, scorer_vars, ollama_vars, tool_vars>>

NextDevOps ==
    \/ RunComprehensiveBegin
    \/ BeginCategory
    \/ GenerateResponseCall
    \/ GenerateResponseReturn
    \/ EndCategory
    \/ RunComprehensiveEnd

SpecDevOps == InitDevOps /\ [][NextDevOps]_vars

\* where GenerateResponseReturn, EndCategory and RunComprehensiveEnd are
\* enabled: their guards, every one of them changing pc_devops
GenerateResponseReturnEnabled == pc_devops = "generating"

EndCategoryEnabled ==
    /\ pc_devops = "case"
    /\ case_index > Len(test_cases_of(test_categories[category_index].category))

RunComprehensiveEndEnabled ==
    /\ pc_devops = "category"
    /\ category_index > Len(test_categories)

\* run_comprehensive_evaluation is one thread that keeps running once it is
\* in its loop: every call of the chat endpoint ends within its timeout of
\* 60 seconds, and a local generation ends.  Weak fairness of the three steps
\* that compute scores is written out, WF_vars(A) being
\* []<>~ENABLED <<A>>_vars \/ []<><<A>>_vars, with the guard for ENABLED
SpecDevOpsFair ==
    /\ SpecDevOps
    /\ WF_vars(BeginCategory)
    /\ WF_vars(GenerateResponseCall)
    /\ []<>(~GenerateResponseReturnEnabled) \/ []<><<GenerateResponseReturn>>_vars
    /\ []<>(~EndCategoryEnabled) \/ []<><<EndCategory>>_vars
    /\ []<>(~RunComprehensiveEndEnabled) \/ []<><<RunComprehensiveEnd>>_vars

---------------------------------------------------------------------------
(* The scorers called twice, also without a response *)

\* how a call ends: with the returned dictionary, or with an exception
Returned(value) == [raised |-> FALSE, value |-> value]

Raised(exception) == [raised |-> TRUE, exception |-> exception]

\* evaluate_response up to the difficulty adjustment, for a response that may
\* be None: `not response` holds for None as for the empty string
score_breakdown_call(resp, kws) ==
    IF resp = None THEN [empty |-> TRUE] ELSE score_breakdown(resp, kws)

\* a call of evaluate_response
evaluate_response_call(resp, kws, d) ==
    Returned(evaluate_response_result(score_breakdown_call(resp, kws), d))

\* evaluate_response_accuracy up to the difficulty weight, for a response
\* that may be None: response.lower() raises AttributeError for None
accuracy_breakdown_call(resp, kws) ==
    IF resp = None
    THEN Raised("AttributeError")
    ELSE Returned(accuracy_breakdown(resp, kws))

\* a call of evaluate_response_accuracy
evaluate_response_accuracy_call(resp, kws, d) ==
    LET breakdown == accuracy_breakdown_call(resp, kws)
    IN IF breakdown.raised
       THEN breakdown
       ELSE Returned(evaluate_response_accuracy_result(breakdown.value, d))

InitCalls ==
    /\ response \in Responses \cup {None}
    /\ keywords \in KeywordLists
    /\ difficulty = "not given"
    /\ called = "none"
    /\ ret = NotCalled
    /\ OllamaConstructed
    /\ DevOpsConstructed(FALSE)
    /\ ToolsIdle

\* the first call of evaluate_response, with some difficulty
CallEvaluateResponse ==
    /\ called = "none"
    /\ \E breakdown \in {score_breakdown_call(response, keywords)} :
          \E d \in Difficulties :
             /\ difficulty' = d
             /\ ret' = Returned(evaluate_response_result(breakdown, d))
    /\ called' = "evaluate_response"
    /\ UNCHANGED <<response, keywords, ollama_vars, devops_vars, tool_vars>>

\* a scorer that turns the passed keyword list to lower case in place
CallEvaluateResponseAgainLowering ==
    /\ called = "evaluate_response"
    /\ ret' = evaluate_response_call(response, keywords, difficulty)
    /\ keywords' = [k \in DOMAIN keywords |-> lower(keywords[k])]
    /\ called' = "evaluate_response again"
    /\ UNCHANGED <<response, difficulty, ollama_vars, devops_vars, tool_vars>>

\* the second call of evaluate_response, with the arguments of the first
CallEvaluateResponseAgain ==
    /\ called = "evaluate_response"
    /\ ret' = evaluate_response_call(response, keywords, difficulty)
    /\ called' = "evaluate_response again"
    /\ UNCHANGED <<response, keywords, difficulty, ollama_vars, devops_vars, tool_vars>>

\* the first call of evaluate_response_accuracy, with some difficulty
CallEvaluateResponseAccuracy ==
    /\ called = "none"
    /\ \E breakdown \in {accuracy_breakdown_call(response, keywords)} :
          \E d \in Difficulties :
             /\ difficulty' = d
             /\ ret' = IF breakdown.raised
                       THEN breakdown
                       ELSE Returned(evaluate_response_accuracy_result(
                                         breakdown.value, d))
    /\ called' = "evaluate_response_accuracy"
    /\ UNCHANGED <<response, keywords, ollama_vars, devops_vars, tool_vars>>

\* the second call of evaluate_response_accuracy, with the arguments of the
\* first
CallEvaluateResponseAccuracyAgain ==
    /\ called = "evaluate_response_accuracy"
    /\ ret' = evaluate_response_accuracy_call(response, keywords, difficulty)
    /\ called' = "evaluate_response_accuracy again"
    /\ UNCHANGED <<response, keywords, difficulty, ollama_vars, devops_vars, tool_vars>>

NextCalls ==
    \/ CallEvaluateResponse
    \/ CallEvaluateResponseAgain
    \/ CallEvaluateResponseAccuracy
    \/ CallEvaluateResponseAccuracyAgain

SpecCalls == InitCalls /\ [][NextCalls]_vars

---------------------------------------------------------------------------
(* DevOpsDatasetBuilder.format_for_qwen3_training *)

\* self.chat_template.format(instruction = instruction, output = output): the
\* two fields of the template replaced, the values put in as they are
chat_template_format(instruction, output) ==
    "<|im_start|>system\nYou are a helpful DevOps and SRE assistant with expertise in cloud infrastructure, CI/CD, monitoring, troubleshooting, and automation.<|im_end|>\n<|im_start|>user\n"
    \o instruction
    \o "<|im_end|>\n<|im_start|>assistant\n"
    \o output
    \o "<|im_end|>"

\* the local variable instruction after the if statement
instruction_of(example) ==
    IF Truthy(example.input)
    THEN example.instruction \o "\n\nInput:\n" \o example.input.str
    ELSE example.instruction

\* example.get('source', 'unknown')
source_of(example) == IF example.source.none THEN "unknown" ELSE example.source.str

\* the record with the text of the instruction and the input in its
\* instruction field
formatted_example_with_input(example) ==
    [text |-> chat_template_format(instruction_of(example), example.output),
     source |-> source_of(example),
     instruction |-> instruction_of(example),
     output |-> example.output]

\* the record appended for an example
formatted_example_of(example) ==
    [text |-> chat_template_format(instruction_of(example), example.output),
     source |-> source_of(example),
     instruction |-> example.instruction,
     output |-> example.output]

\* examples as the builder's sources give them: the key input absent, empty
\* or a text; the key source absent or a name
ExamplePool ==
    [instruction : {"How do I restart a pod?", "Explain the {output} field"},
     input : {None, Str(""), Str("kubectl get pods")},
     output : {"Delete the pod; the Deployment creates a new one."},
     source : {None, Str("synthetic")}]

ExampleLists == UNION {[1..n -> ExamplePool] : n \in 0..MaxExamples}

InitFormat ==
    /\ ScorerIdle
    /\ OllamaConstructed
    /\ DevOpsConstructed(FALSE)
    /\ TrainIdle
    /\ ScriptsIdle
    /\ pc_format = "called"
    /\ examples \in ExampleLists
    /\ example_index = 0
    /\ formatted_examples = <<>>

\* formatted_examples = []
FormatBegin ==
    /\ pc_format = "called"
    /\ formatted_examples' = <<>>
    /\ example_index' = 1
    /\ pc_format' = "loop"
    /\ UNCHANGED <<examples, train_vars, script_vars, scorer_vars, ollama_vars, devops_vars>>

\* one pass of the loop
FormatExample ==
    /\ pc_format = "loop"
    /\ example_index <= Len(examples)
    /\ formatted_examples' =
          Append(formatted_examples, formatted_example_of(examples[example_index]))
    /\ example_index' = example_index + 1
    /\ UNCHANGED <<pc_format, examples, train_vars, script_vars, scorer_vars, ollama_vars,
                   devops_vars>>

\* return formatted_examples
FormatReturn ==
    /\ pc_format = "loop"
    /\ example_index > Len(examples)
    /\ pc_format' = "returned"
    /\ UNCHANGED <<examples, example_index, formatted_examples, train_vars, script_vars,
                   scorer_vars, ollama_vars, devops_vars>>

NextFormat == FormatBegin \/ FormatExample \/ FormatReturn

SpecFormat == InitFormat /\ [][NextFormat]_vars

---------------------------------------------------------------------------
(* train_model: the checkpoint it resumes from *)

\* OUTPUT_DIR when there is no /data
OUTPUT_DIR == "./qwen-devops-foundation"

\* save_steps and save_total_limit of the TrainingArguments
save_steps == 50

save_total_limit == 5

\* the characters of directory names, in the order of their code points
CodePointOrder == "-.0123456789_abcdefghijklmnopqrstuvwxyz"

CodePoint(c) == CHOOSE k \in 1..Len(CodePointOrder) : CharAt(CodePointOrder, k) = c

\* a < b for two Python strings
RECURSIVE StrLess(_, _)
StrLess(a, b) ==
    IF a = "" THEN b # ""
    ELSE IF b = "" THEN FALSE
    ELSE IF CharAt(a, 1) = CharAt(b, 1) THEN StrLess(Tail(a), Tail(b))
    ELSE CodePoint(CharAt(a, 1)) < CodePoint(CharAt(b, 1))

\* d.startswith(prefix)
startswith(d, prefix) ==
    Len(d) >= Len(prefix) /\ SubSeq(d, 1, Len(prefix)) = prefix

\* str(n) for a natural number
RECURSIVE DecimalString(_)
DecimalString(n) ==
    IF n < 10 THEN CharAt("0123456789", n + 1)
    ELSE DecimalString(n \div 10) \o CharAt("0123456789", (n % 10) + 1)

\* int(digits)
RECURSIVE DecimalValue(_)
DecimalValue(digits) ==
    IF digits = "" THEN 0
    ELSE 10 * DecimalValue(SubSeq(digits, 1, Len(digits) - 1))
         + (CHOOSE v \in 0..9 : CharAt("0123456789", v + 1) = CharAt(digits, Len(digits)))

\* the directory the trainer saves at a step
checkpoint_name(step) == "checkpoint-" \o DecimalString(step)

\* the step of a checkpoint directory
checkpoint_step(d) == DecimalValue(SubSeq(d, Len("checkpoint-") + 1, Len(d)))

\* [d for d in os.listdir(OUTPUT_DIR) if d.startswith("checkpoint-")]
checkpoints_in(entries) == {d \in entries : startswith(d, "checkpoint-")}

\* sorted(checkpoints)[-1]
last_sorted(checkpoints) ==
    CHOOSE d \in checkpoints : \A e \in checkpoints \ {d} : StrLess(e, d)

\* latest_checkpoint after the checkpoint detection
latest_checkpoint_of(dir) ==
    IF ~dir.exists THEN None
    ELSE IF checkpoints_in(dir.entries) = {} THEN None
    ELSE Str(OUTPUT_DIR \o "/" \o last_sorted(checkpoints_in(dir.entries)))

\* the step training goes on from: that of the checkpoint, or 0
resumed_step_of(checkpoint) ==
    IF checkpoint = None THEN 0
    ELSE checkpoint_step(SubSeq(checkpoint.str, Len(OUTPUT_DIR) + 2, Len(checkpoint.str)))

\* the entries of OUTPUT_DIR after the trainer has saved at a step: at most
\* save_total_limit checkpoints are kept, those of the greatest steps
RECURSIVE rotated(_)
rotated(entries) ==
    IF Cardinality(checkpoints_in(entries)) <= save_total_limit THEN entries
    ELSE rotated(entries \ {CHOOSE d \in checkpoints_in(entries) :
                               \A e \in checkpoints_in(entries) :
                                  checkpoint_step(d) <= checkpoint_step(e)})

saved_at(dir, step) ==
    Directory(rotated(dir.entries \cup {checkpoint_name(step)}))

\* what trainer.save_model, tokenizer.save_pretrained and the metrics file
\* add to OUTPUT_DIR
FinalFiles == {"adapter_model.safetensors", "training_metrics.json"}

InitTrain ==
    /\ ScorerIdle
    /\ OllamaConstructed
    /\ DevOpsConstructed(FALSE)
    /\ FormatIdle
    /\ ScriptsIdle
    /\ pc_train = "called"
    /\ output_dir \in {Absent, Directory({}), Directory({"runs"})}
    /\ latest_checkpoint = None
    /\ global_step = 0

\* train_model up to the end of the checkpoint detection
DetectCheckpoint ==
    /\ pc_train = "called"
    /\ latest_checkpoint' = latest_checkpoint_of(output_dir)
    /\ pc_train' = "detected"
    /\ UNCHANGED <<output_dir, global_step, format_vars, script_vars, scorer_vars, ollama_vars,
                   devops_vars>>

\* trainer.train(resume_from_checkpoint = latest_checkpoint) starts
TrainerTrain ==
    /\ pc_train = "detected"
    /\ global_step' = resumed_step_of(latest_checkpoint)
    /\ pc_train' = "training"
    /\ UNCHANGED <<output_dir, latest_checkpoint, format_vars, script_vars, scorer_vars,
                   ollama_vars, devops_vars>>

\* the trainer goes on to the next save and saves a checkpoint
TrainerSave ==
    /\ pc_train = "training"
    /\ global_step < MaxSaves * save_steps
    /\ global_step' = global_step + save_steps
    /\ output_dir' = saved_at(output_dir, global_step')
    /\ UNCHANGED <<pc_train, latest_checkpoint, format_vars, script_vars, scorer_vars,
                   ollama_vars, devops_vars>>

\* trainer.train raises: train_model reports and raises again
TrainingInterrupted ==
    /\ pc_train = "training"
    /\ pc_train' = "interrupted"
    /\ UNCHANGED <<output_dir, latest_checkpoint, global_step, format_vars, script_vars,
                   scorer_vars, ollama_vars, devops_vars>>

\* trainer.train returns after the last step and the model is saved
TrainingFinished ==
    /\ pc_train = "training"
    /\ global_step >= MaxSaves * save_steps
    /\ output_dir' = Directory(output_dir.entries \cup FinalFiles)
    /\ pc_train' = "finished"
    /\ UNCHANGED <<latest_checkpoint, global_step, format_vars, script_vars, scorer_vars,
                   ollama_vars, devops_vars>>

\* the app is started again and train_model is called again
TrainModelAgain ==
    /\ pc_train \in {"interrupted", "finished"}
    /\ pc_train' = "called"
    /\ latest_checkpoint' = None
    /\ global_step' = 0
    /\ UNCHANGED <<output_dir, format_vars, script_vars, scorer_vars, ollama_vars, devops_vars>>

NextTrain ==
    \/ DetectCheckpoint
    \/ TrainerTrain
    \/ TrainerSave
    \/ TrainingInterrupted
    \/ TrainingFinished
    \/ TrainModelAgain

SpecTrain == InitTrain /\ [][NextTrain]_vars

---------------------------------------------------------------------------
(* interactive_chat of the chat client *)

\* the lines the user may type during a session
MaxTyped == 4

\* whether s is a non-empty string of decimal digits
IsDigits(s) == s # "" /\ \A i \in 1..Len(s) : CharAt(s, i) \in Digits

\* int(s) for a stripped line: an optional sign and decimal digits, anything
\* else raises ValueError
int_of(s) ==
    IF IsDigits(s) THEN Returned(DecimalValue(s))
    ELSE IF Len(s) > 1 /\ CharAt(s, 1) \in {"+", "-"} /\ IsDigits(SubSeq(s, 2, Len(s)))
         THEN Returned((IF CharAt(s, 1) = "-" THEN -1 ELSE 1)
                        * DecimalValue(SubSeq(s, 2, Len(s))))
    ELSE Raised("ValueError")

\* 10 to the power n
RECURSIVE PowerOfTen(_)
PowerOfTen(n) == IF n = 0 THEN 1 ELSE 10 * PowerOfTen(n - 1)

\* float(s) for a stripped line written without sign and exponent: decimal
\* digits with at most one point and at least one digit, anything else raises
\* ValueError
float_of(s) ==
    LET points == {i \in 1..Len(s) : CharAt(s, i) = "."}
    IN IF points = {}
       THEN IF IsDigits(s) THEN Returned(Rat(DecimalValue(s), 1))
            ELSE Raised("ValueError")
       ELSE LET point == CHOOSE i \in points : TRUE
                whole == SubSeq(s, 1, point - 1)
                fraction == SubSeq(s, point + 1, Len(s))
            IN IF /\ Cardinality(points) = 1
                  /\ whole \o fraction # ""
                  /\ IsDigits("0" \o whole \o fraction)
               THEN Returned(Rat(DecimalValue(whole \o fraction),
                                 PowerOfTen(Len(fraction))))
               ELSE Raised("ValueError")

\* input() raised KeyboardInterrupt instead of returning a line
KeyboardInterrupt == [none |-> TRUE]

\* what the user types at the main prompt
UserLines == {"quit", "help", " Settings", "health", "", "How do I restart nginx? "}

\* what the user types at the two prompts of the settings command
LengthLines == {"", "256 ", "2.5", "abc"}
TemperatureLines == {"", "0.2", "hot"}

\* what POST /chat gives: a result, or an error
ChatOutcomes == {"response", "error"}

\* what GET /health gives in health_check: the status, or an error
ChatHealthOutcomes == {"healthy", "error"}

InitChat ==
    /\ OthersIdle
    /\ ChatIdle
    /\ CreateIdle
    /\ DatasetsIdle
    /\ PipelineIdle

\* every variable outside interactive_chat
not_chat_vars == <<core_vars, create_vars, datasets_vars, pipeline_vars>>

\* interactive_chat up to its loop: it returns when the server is not
\* available, otherwise the default settings are set
ChatBegin ==
    /\ pc_chat = "not called"
    /\ \E health \in ChatHealthOutcomes :
          IF health = "error"
          THEN /\ pc_chat' = "returned"
               /\ chat_output' = Append(chat_output, "Server not available")
               /\ UNCHANGED <<max_length, temperature>>
          ELSE /\ pc_chat' = "prompt"
               /\ chat_output' = Append(chat_output, "Chat started!")
               /\ max_length' = 512
               /\ temperature' = Rat(7, 10)
    /\ UNCHANGED <<typed, chat_requests, not_chat_vars>>

\* the line typed at the main prompt, stripped and in lower case
AtPrompt(line) ==
    /\ pc_chat = "prompt"
    /\ Len(typed) < MaxTyped
    /\ line \in UserLines

\* 'quit', 'exit' or 'q': the loop ends
ChatQuit ==
    /\ \E line \in UserLines :
          /\ AtPrompt(line)
          /\ lower(strip(line)) \in {"quit", "exit", "q"}
          /\ typed' = Append(typed, line)
    /\ chat_output' = Append(chat_output, "Goodbye!")
    /\ pc_chat' = "returned"
    /\ UNCHANGED <<max_length, temperature, chat_requests, not_chat_vars>>

\* Ctrl-C at the main prompt: the loop ends
ChatInterrupt ==
    /\ pc_chat = "prompt"
    /\ Len(typed) < MaxTyped
    /\ chat_output' = Append(chat_output, "Goodbye!")
    /\ pc_chat' = "returned"
    /\ UNCHANGED <<max_length, temperature, typed, chat_requests, not_chat_vars>>

\* 'help', 'health' or an empty line: something is printed and the loop goes
\* on
ChatHelp ==
    /\ \E line \in UserLines :
          /\ AtPrompt(line)
          /\ lower(strip(line)) \in {"help", "health", ""}
          /\ typed' = Append(typed, line)
          /\ chat_output' =
                IF strip(line) = "" THEN chat_output
                ELSE Append(chat_output, lower(strip(line)))
    /\ UNCHANGED <<pc_chat, max_length, temperature, chat_requests, not_chat_vars>>

\* the try block of the settings command, from the values max_length and
\* temperature have and the two answers (the second is not asked for when the
\* first raises): the values afterwards, the lines read, what is printed, and
\* whether KeyboardInterrupt leaves the loop
settings_command(length_now, temperature_now, new_length, new_temp) ==
    IF new_length = KeyboardInterrupt
    THEN [max_length |-> length_now, temperature |-> temperature_now,
          lines |-> <<>>, printed |-> "Goodbye!", interrupted |-> TRUE]
    ELSE LET length_parsed == IF strip(new_length.str) # ""
                              THEN int_of(strip(new_length.str))
                              ELSE Returned(length_now)
         IN IF length_parsed.raised
            THEN [max_length |-> length_now, temperature |-> temperature_now,
                  lines |-> <<new_length.str>>,
                  printed |-> "Invalid input, keeping current settings",
                  interrupted |-> FALSE]
            ELSE IF new_temp = KeyboardInterrupt
            THEN [max_length |-> length_parsed.value, temperature |-> temperature_now,
                  lines |-> <<new_length.str>>, printed |-> "Goodbye!",
                  interrupted |-> TRUE]
            ELSE LET temp_parsed == IF strip(new_temp.str) # ""
                                    THEN float_of(strip(new_temp.str))
                                    ELSE Returned(temperature_now)
                 IN IF temp_parsed.raised
                    THEN [max_length |-> length_parsed.value,
                          temperature |-> temperature_now,
                          lines |-> <<new_length.str, new_temp.str>>,
                          printed |-> "Invalid input, keeping current settings",
                          interrupted |-> FALSE]
                    ELSE [max_length |-> length_parsed.value,
                          temperature |-> temp_parsed.value,
                          lines |-> <<new_length.str, new_temp.str>>,
                          printed |-> "Settings updated!",
                          interrupted |-> FALSE]

\* 'settings': the two values are asked for and converted
ChatSettings ==
    /\ \E line \in UserLines :
          /\ AtPrompt(line)
          /\ lower(strip(line)) = "settings"
          /\ \E new_length \in {Str(l) : l \in LengthLines} \cup {KeyboardInterrupt},
                new_temp \in {Str(l) : l \in TemperatureLines} \cup {KeyboardInterrupt} :
                \E after \in {settings_command(max_length, temperature,
                                               new_length, new_temp)} :
                   /\ max_length' = after.max_length
                   /\ temperature' = after.temperature
                   /\ typed' = Append(typed, line) \o after.lines
                   /\ chat_output' = Append(chat_output, after.printed)
                   /\ pc_chat' = IF after.interrupted THEN "returned" ELSE "prompt"
    /\ UNCHANGED <<chat_requests, not_chat_vars>>

\* any other line is sent to the model with the current settings
ChatMessage ==
    /\ \E line \in UserLines :
          /\ AtPrompt(line)
          /\ lower(strip(line)) \notin
                {"quit", "exit", "q", "help", "settings", "health", ""}
          /\ typed' = Append(typed, line)
          /\ chat_requests' =
                Append(chat_requests,
                       [message |-> strip(line), max_length |-> max_length,
                        temperature |-> temperature])
    /\ \E outcome \in ChatOutcomes :
          chat_output' = Append(chat_output, outcome)
    /\ UNCHANGED <<pc_chat, max_length, temperature, not_chat_vars>>

NextChat ==
    \/ ChatBegin
    \/ ChatQuit
    \/ ChatInterrupt
    \/ ChatHelp
    \/ ChatSettings
    \/ ChatMessage

SpecChat == InitChat /\ [][NextChat]_vars

---------------------------------------------------------------------------
(* create_ollama_devops_model.py: the model and its shortcuts *)

\* the keys of the dictionary shortcuts, in their order
shortcuts == <<"qwen-docker", "qwen-k8s", "qwen-cicd">>

\* the questions of test_model
test_model_questions ==
    <<"How do I deploy to Kubernetes?", "What are Docker best practices?",
      "How to troubleshoot a failing pod?">>

\* what `ollama create` does: it exits with a return code, or subprocess.run
\* raises (the ollama binary is missing)
CreateOutcomes ==
    [kind : {"completed"}, returncode : {0, 1}]
    \cup [kind : {"raises"}, exception : {"FileNotFoundError"}]

\* what `ollama run` does in test_model: it exits with a return code, it runs
\* into the timeout of 60 seconds, or subprocess.run raises
TestOutcomes ==
    [kind : {"completed"}, returncode : {0, 1}]
    \cup [kind : {"timeout"}] \cup [kind : {"raises"}, exception : {"OSError"}]

\* what the user answers when asked for the shortcuts
ShortcutAnswers == {Str("y"), Str(" Yes"), Str("n"), KeyboardInterrupt}

\* a process started by the script
CreateCall(command, model, path, outcome) ==
    [command |-> command, model |-> model, modelfile |-> path, outcome |-> outcome]

\* how a function of the script ended
Ended(function, how) == [function |-> function, how |-> how]

\* the test questions asked so far
TestsRun == Cardinality({k \in DOMAIN create_calls : create_calls[k].command = "run"})

InitCreate ==
    /\ OthersIdle
    /\ ChatIdle
    /\ CreateIdle
    /\ DatasetsIdle
    /\ PipelineIdle

\* every variable outside the model creator
not_create_vars == <<core_vars, chat_vars, datasets_vars, pipeline_vars>>

\* main up to the call of create_devops_ollama_model: the base model has to
\* be in the output of `ollama list`
CreateMainBegin ==
    /\ pc_create = "not called"
    /\ \E listed \in {"base model listed", "base model not listed", "raises"} :
          pc_create' = IF listed = "base model listed" THEN "model" ELSE "ended"
    /\ UNCHANGED <<temp_files, temp_created, modelfile_path, shortcut_index,
                   create_calls, create_ended, not_create_vars>>

\* tempfile.NamedTemporaryFile(delete = False): a file with a name not used
\* before, written and closed; modelfile_path is its name
NamedTemporaryFile ==
    /\ temp_created' = temp_created + 1
    /\ temp_files' = temp_files \cup {temp_created + 1}
    /\ modelfile_path' = temp_created + 1

\* os.unlink(modelfile_path)
Unlink == temp_files' = temp_files \ {modelfile_path}

\* create_devops_ollama_model writes its Modelfile and starts `ollama create`
ModelModelfile ==
    /\ pc_create = "model"
    /\ NamedTemporaryFile
    /\ pc_create' = "model create"
    /\ UNCHANGED <<shortcut_index, create_calls, create_ended, not_create_vars>>

\* `ollama create qwen-devops` ends: with return code 0 test_model is called,
\* otherwise the finally clause deletes the Modelfile and the function
\* returns False or passes the exception on
OllamaCreateModel ==
    /\ pc_create = "model create"
    /\ \E outcome \in CreateOutcomes :
          /\ create_calls' =
                Append(create_calls,
                       CreateCall("create", "qwen-devops", modelfile_path, outcome))
          /\ IF outcome.kind = "completed" /\ outcome.returncode = 0
             THEN /\ pc_create' = "testing"
                  /\ UNCHANGED <<temp_files, create_ended>>
             ELSE /\ Unlink
                  /\ IF outcome.kind = "raises"
                     THEN /\ create_ended' =
                                Append(create_ended,
                                       Ended("create_devops_ollama_model", "raised"))
                          /\ pc_create' = "ended"
                     ELSE /\ create_ended' =
                                Append(create_ended,
                                       Ended("create_devops_ollama_model", "returned False"))
                          /\ pc_create' = "ended"
    /\ UNCHANGED <<temp_created, modelfile_path, shortcut_index, not_create_vars>>

\* test_model asks one of its questions; every failure is printed only
TestModelQuestion ==
    /\ pc_create = "testing"
    /\ TestsRun < Len(test_model_questions)
    /\ \E outcome \in TestOutcomes :
          create_calls' =
              Append(create_calls, CreateCall("run", "qwen-devops", 0, outcome))
    /\ UNCHANGED <<pc_create, temp_files, temp_created, modelfile_path,
                   shortcut_index, create_ended, not_create_vars>>

\* after test_model: the finally clause deletes the Modelfile,
\* create_devops_ollama_model returns True and main asks for the shortcuts
ModelReturn ==
    /\ pc_create = "testing"
    /\ TestsRun = Len(test_model_questions)
    /\ Unlink
    /\ create_ended' =
          Append(create_ended, Ended("create_devops_ollama_model", "returned True"))
    /\ \E answer \in ShortcutAnswers :
          IF answer # KeyboardInterrupt /\ lower(strip(answer.str)) \in {"y", "yes"}
          THEN pc_create' = "shortcut" /\ shortcut_index' = 1
          ELSE pc_create' = "ended" /\ UNCHANGED shortcut_index
    /\ UNCHANGED <<temp_created, modelfile_path, create_calls, not_create_vars>>

\* create_devops_shortcuts writes the Modelfile of the next shortcut and
\* starts `ollama create`
ShortcutModelfile ==
    /\ pc_create = "shortcut"
    /\ shortcut_index <= Len(shortcuts)
    /\ NamedTemporaryFile
    /\ pc_create' = "shortcut create"
    /\ UNCHANGED <<shortcut_index, create_calls, create_ended, not_create_vars>>

\* the loop with os.unlink after the if statement instead of in a finally
\* clause
OllamaCreateShortcutNoFinally ==
    /\ pc_create = "shortcut create"
    /\ \E outcome \in CreateOutcomes :
          /\ create_calls' =
                Append(create_calls,
                       CreateCall("create", shortcuts[shortcut_index],
                                  modelfile_path, outcome))
          /\ IF outcome.kind = "raises"
             THEN /\ create_ended' =
                        Append(create_ended, Ended("create_devops_shortcuts", "raised"))
                  /\ pc_create' = "ended"
                  /\ UNCHANGED <<shortcut_index, temp_files>>
             ELSE /\ Unlink
                  /\ shortcut_index' = shortcut_index + 1
                  /\ pc_create' = "shortcut"
                  /\ UNCHANGED create_ended
    /\ UNCHANGED <<temp_created, modelfile_path, not_create_vars>>

\* `ollama create` of a shortcut ends: the finally clause deletes the
\* Modelfile; after a return code the loop goes on, an exception leaves the
\* function
OllamaCreateShortcut ==
    /\ pc_create = "shortcut create"
    /\ \E outcome \in CreateOutcomes :
          /\ create_calls' =
                Append(create_calls,
                       CreateCall("create", shortcuts[shortcut_index],
                                  modelfile_path, outcome))
          /\ Unlink
          /\ IF outcome.kind = "raises"
             THEN /\ create_ended' =
                        Append(create_ended, Ended("create_devops_shortcuts", "raised"))
                  /\ pc_create' = "ended"
                  /\ UNCHANGED shortcut_index
             ELSE /\ shortcut_index' = shortcut_index + 1
                  /\ pc_create' = "shortcut"
                  /\ UNCHANGED create_ended
    /\ UNCHANGED <<temp_created, modelfile_path, not_create_vars>>

\* after the last shortcut create_devops_shortcuts returns
ShortcutsReturn ==
    /\ pc_create = "shortcut"
    /\ shortcut_index > Len(shortcuts)
    /\ create_ended' =
          Append(create_ended, Ended("create_devops_shortcuts", "returned"))
    /\ pc_create' = "ended"
    /\ UNCHANGED <<temp_files, temp_created, modelfile_path, shortcut_index,
                   create_calls, not_create_vars>>

NextCreate ==
    \/ CreateMainBegin
    \/ ModelModelfile
    \/ OllamaCreateModel
    \/ TestModelQuestion
    \/ ModelReturn
    \/ ShortcutModelfile
    \/ OllamaCreateShortcut
    \/ ShortcutsReturn

SpecCreate == InitCreate /\ [][NextCreate]_vars

---------------------------------------------------------------------------
(* load_devops_datasets of the training Space *)

\* the external datasets, in the order they are loaded
external_sources ==
    <<"CoSQA", "StackExchange DevOps", "CodeQA", "Kubernetes StackOverflow",
      "Docker Commands", "Python StackOverflow", "Incident Response Playbooks",
      "Incident Management">>

\* what loading and reading an external dataset does: it gives a number of
\* examples, or load_dataset or the reading of an item raises
SourceOutcomes ==
    [kind : {"loaded"}, examples : {0, 3}]
    \cup [kind : {"raises"}, message : {"ConnectionError"}]

\* a run of examples of all_examples, all from one source
ExamplesFrom(source, count) == [source |-> source, count |-> count]

\* len(all_examples)
RECURSIVE LenExamples(_)
LenExamples(runs) ==
    IF runs = <<>> THEN 0 ELSE Head(runs).count + LenExamples(Tail(runs))

\* the entries of datasets_info
Loaded(source, count) == [source |-> source, loaded |-> TRUE, count |-> count]

Failed(source, message) == [source |-> source, loaded |-> FALSE, message |-> message]

InitDatasets ==
    /\ OthersIdle
    /\ ChatIdle
    /\ CreateIdle
    /\ DatasetsIdle
    /\ PipelineIdle

\* every variable outside load_devops_datasets
not_datasets_vars == <<core_vars, chat_vars, create_vars, pipeline_vars>>

\* load_devops_datasets up to the first external dataset: the five synthetic
\* examples
LoadDatasetsBegin ==
    /\ pc_datasets = "not called"
    /\ all_examples' = <<ExamplesFrom("Synthetic examples", 5)>>
    /\ datasets_info' = <<Loaded("Synthetic examples", 5)>>
    /\ source_index' = 1
    /\ pc_datasets' = "external"
    /\ UNCHANGED not_datasets_vars

\* the try statements without their except clauses: a failing dataset ends
\* load_devops_datasets
LoadSourceUncaught ==
    /\ pc_datasets = "external"
    /\ source_index <= Len(external_sources)
    /\ \E outcome \in SourceOutcomes :
          IF outcome.kind = "loaded"
          THEN /\ all_examples' =
                     Append(all_examples,
                            ExamplesFrom(external_sources[source_index], outcome.examples))
               /\ datasets_info' =
                     Append(datasets_info,
                            Loaded(external_sources[source_index], outcome.examples))
               /\ source_index' = source_index + 1
               /\ UNCHANGED pc_datasets
          ELSE /\ pc_datasets' = "raised"
               /\ UNCHANGED <<all_examples, datasets_info, source_index>>
    /\ UNCHANGED not_datasets_vars

\* the try statement of one external dataset: its examples are added and
\* reported, or the exception is reported
LoadSource ==
    /\ pc_datasets = "external"
    /\ source_index <= Len(external_sources)
    /\ \E outcome \in SourceOutcomes :
          IF outcome.kind = "loaded"
          THEN /\ all_examples' =
                     Append(all_examples,
                            ExamplesFrom(external_sources[source_index], outcome.examples))
               /\ datasets_info' =
                     Append(datasets_info,
                            Loaded(external_sources[source_index], outcome.examples))
          ELSE /\ datasets_info' =
                     Append(datasets_info,
                            Failed(external_sources[source_index], outcome.message))
               /\ UNCHANGED all_examples
    /\ source_index' = source_index + 1
    /\ UNCHANGED <<pc_datasets, not_datasets_vars>>

\* all_examples and datasets_info after the comprehensive examples and the
\* check for fewer than 10 examples
with_comprehensive(runs, info) ==
    LET all == Append(runs, ExamplesFrom("Comprehensive synthetic examples", 15))
        reported == Append(info, Loaded("Comprehensive synthetic examples", 15))
    IN IF LenExamples(all) < 10
       THEN [all_examples |-> Append(all, ExamplesFrom("Synthetic examples", 3)),
             datasets_info |-> Append(reported, Loaded("Synthetic examples", 3))]
       ELSE [all_examples |-> all, datasets_info |-> reported]

\* after the last external dataset: the fifteen comprehensive examples, the
\* check for fewer than 10 examples, and the return
LoadDatasetsEnd ==
    /\ pc_datasets = "external"
    /\ source_index > Len(external_sources)
    /\ all_examples' = with_comprehensive(all_examples, datasets_info).all_examples
    /\ datasets_info' = with_comprehensive(all_examples, datasets_info).datasets_info
    /\ pc_datasets' = "returned"
    /\ UNCHANGED <<source_index, not_datasets_vars>>

NextDatasets ==
    \/ LoadDatasetsBegin
    \/ LoadSource
    \/ LoadDatasetsEnd

SpecDatasets == InitDatasets /\ [][NextDatasets]_vars

---------------------------------------------------------------------------
(* test_training_pipeline.py: the pipeline test and its callers *)

\* who calls test_training_pipeline: the script itself, or run_test of
\* run_local_test.py
Callers == {"test_training_pipeline.py", "run_local_test.run_test"}

\* the steps of test_training_pipeline before the upload; each can raise
training_stages ==
    <<"from_pretrained", "get_peft_model", "trainer.train", "trainer.save_model",
      "tokenizer.save_pretrained">>

\* the steps of test_upload_to_hub after the token check; each can raise
upload_stages ==
    <<"create_repo", "load saved model", "model.push_to_hub", "tokenizer.push_to_hub">>

\* what a step does
StageOutcomes ==
    [kind : {"ok"}] \cup [kind : {"raises"}, message : {"OSError", "HfHubHTTPError"}]

\* HF_TOKEN as validate_hf_token finds it: not set, rejected by whoami,
\* refused by list_models, or accepted
TokenStates == [kind : {"missing", "invalid", "no permission", "valid"}]

\* validate_hf_token: whether the token is valid
validate_hf_token(token) == token.kind = "valid"

PipelineCall(stage, outcome) == [stage |-> stage, outcome |-> outcome]

PipelineReturn(function, value) == [function |-> function, value |-> value]

\* the steps of one kind made so far
StagesDone(stages) ==
    Cardinality({k \in DOMAIN pipeline_calls :
                    \E j \in DOMAIN stages : pipeline_calls[k].stage = stages[j]})

\* test_results.json as test_upload_to_hub writes it
ResultsFile(successful) == [exists |-> TRUE, upload_successful |-> successful]

\* what test_training_pipeline returns after test_upload_to_hub has
\* returned: the value of the call is not used
training_pipeline_returns(upload_returned) == TRUE

\* pipeline_ret after test_upload_to_hub has returned a value
AfterUpload(upload_returned) ==
    pipeline_ret \o
        <<PipelineReturn("test_upload_to_hub", upload_returned),
          PipelineReturn("test_training_pipeline",
                         training_pipeline_returns(upload_returned))>>

InitPipeline ==
    /\ OthersIdle
    /\ ChatIdle
    /\ CreateIdle
    /\ DatasetsIdle
    /\ PipelineIdle

\* every variable outside the pipeline test
not_pipeline_vars == <<core_vars, chat_vars, create_vars, datasets_vars>>

\* a caller calls test_training_pipeline
PipelineBegin ==
    /\ pc_pipeline = "not called"
    /\ \E caller \in Callers :
          pipeline_output' = Append(pipeline_output, caller)
    /\ pc_pipeline' = "training"
    /\ UNCHANGED <<pipeline_calls, pipeline_ret, test_results, not_pipeline_vars>>

\* a step before the upload: an exception makes test_training_pipeline
\* return False
TrainingStage ==
    /\ pc_pipeline = "training"
    /\ StagesDone(training_stages) < Len(training_stages)
    /\ \E outcome \in StageOutcomes :
          /\ pipeline_calls' =
                Append(pipeline_calls,
                       PipelineCall(training_stages[StagesDone(training_stages) + 1],
                                    outcome))
          /\ IF outcome.kind = "raises"
             THEN /\ pipeline_ret' =
                        Append(pipeline_ret,
                               PipelineReturn("test_training_pipeline", FALSE))
                  /\ pc_pipeline' = "returned"
             ELSE /\ pc_pipeline' =
                        IF StagesDone(training_stages) + 1 = Len(training_stages)
                        THEN "upload" ELSE "training"
                  /\ UNCHANGED pipeline_ret
    /\ UNCHANGED <<test_results, pipeline_output, not_pipeline_vars>>

\* test_upload_to_hub checks the token first and returns False without one
\* that is valid
ValidateToken ==
    /\ pc_pipeline = "upload"
    /\ \E token \in TokenStates :
          /\ pipeline_calls' =
                Append(pipeline_calls, PipelineCall("validate_hf_token", token))
          /\ IF validate_hf_token(token)
             THEN pc_pipeline' = "uploading" /\ UNCHANGED pipeline_ret
             ELSE pc_pipeline' = "returned" /\ pipeline_ret' = AfterUpload(FALSE)
    /\ UNCHANGED <<test_results, pipeline_output, not_pipeline_vars>>

\* a step of the upload: an exception is written to test_results.json and
\* test_upload_to_hub returns False; after the last step the success is
\* written and it returns True
UploadStage ==
    /\ pc_pipeline = "uploading"
    /\ \E outcome \in StageOutcomes :
          /\ pipeline_calls' =
                Append(pipeline_calls,
                       PipelineCall(upload_stages[StagesDone(upload_stages) + 1], outcome))
          /\ IF outcome.kind = "raises"
             THEN /\ test_results' = ResultsFile(FALSE)
                  /\ pipeline_ret' = AfterUpload(FALSE)
                  /\ pc_pipeline' = "returned"
             ELSE IF StagesDone(upload_stages) + 1 = Len(upload_stages)
             THEN /\ test_results' = ResultsFile(TRUE)
                  /\ pipeline_ret' = AfterUpload(TRUE)
                  /\ pc_pipeline' = "returned"
             ELSE UNCHANGED <<test_results, pipeline_ret, pc_pipeline>>
    /\ UNCHANGED <<pipeline_output, not_pipeline_vars>>

\* what test_training_pipeline returned
PipelineSuccess ==
    \E k \in DOMAIN pipeline_ret :
        /\ pipeline_ret[k].function = "test_training_pipeline"
        /\ pipeline_ret[k].value

\* the caller reports: the script prints that all tests passed and may clean
\* up the test files, run_test prints that the pipeline was successful
PipelineReport ==
    /\ pc_pipeline = "returned"
    /\ pipeline_output' =
          Append(pipeline_output,
                 IF pipeline_output[1] = "test_training_pipeline.py"
                 THEN (IF PipelineSuccess THEN "ALL TESTS PASSED!" ELSE "TESTS FAILED!")
                 ELSE (IF PipelineSuccess THEN "TEST PIPELINE SUCCESSFUL!"
                       ELSE "TEST PIPELINE FAILED!"))
    /\ \E cleanup_choice \in {"y", "n"} :
          test_results' =
              IF /\ pipeline_output[1] = "test_training_pipeline.py"
                 /\ PipelineSuccess
                 /\ cleanup_choice = "y"
              THEN [exists |-> FALSE]
              ELSE test_results
    /\ pc_pipeline' = "reported"
    /\ UNCHANGED <<pipeline_calls, pipeline_ret, not_pipeline_vars>>

NextPipeline ==
    \/ PipelineBegin
    \/ TrainingStage
    \/ ValidateToken
    \/ UploadStage
    \/ PipelineReport

SpecPipeline == InitPipeline /\ [][NextPipeline]_vars

---------------------------------------------------------------------------
(* Claims about the scorers, checked under Spec *)

AfterEvaluateResponse == called = "evaluate_response"
AfterEvaluateResponseAccuracy == called = "evaluate_response_accuracy"

\* 0 <= p <= hi
Within(p, hi) == p.num >= 0 /\ p.den > 0 /\ RatLE(p, Rat(hi, 1))

\* the length bonus as returned (the result for an empty response has none)
ReturnedBonus == IF "length_bonus" \in DOMAIN ret THEN ret.length_bonus ELSE Rat(0, 1)

\* the sum of the returned sub-scores and the length bonus
ReturnedSum ==
    RatAdd(RatAdd(RatAdd(RatAdd(ret.structure_score, ret.concept_coverage),
                         ret.implementation_depth),
                  ret.best_practices_score),
           ReturnedBonus)

\* the multipliers the claims name for evaluate_response
NamedMultiplier(d) ==
    CASE d = "basic" -> Rat(1, 1)
      [] d = "intermediate" -> Rat(105, 100)
      [] d = "advanced" -> Rat(110, 100)

NamedDifficulties == {"basic", "intermediate", "advanced"}

\* C1: every sub-score and the total returned by evaluate_response lie in
\* their ranges: structure 0..25, concept coverage 0..25, implementation
\* depth 0..30, best practices 0..20, total 0..100, also when the sum of the
\* sub-scores and the bonus times the multiplier is above 100.
C1_ScoresWithinBounds ==
    AfterEvaluateResponse =>
        /\ Within(ret.structure_score, 25)
        /\ Within(ret.concept_coverage, 25)
        /\ Within(ret.implementation_depth, 30)
        /\ Within(ret.best_practices_score, 20)
        /\ Within(ret.total_score, 100)

\* a call whose uncapped total is above 100 and whose total is 100
C1_Witness ==
    /\ AfterEvaluateResponse
    /\ difficulty \in NamedDifficulties
    /\ RatLT(Rat(100, 1), RatMul(ReturnedSum, NamedMultiplier(difficulty)))
    /\ ret.total_score = Rat(100, 1)

\* C2: an empty or whitespace-only response gets every score 0, in both
\* scorers, whatever the keyword list and the difficulty.
C2_EmptyResponseScoresZero ==
    strip_is_empty(response) =>
        /\ AfterEvaluateResponse =>
              /\ ret.structure_score = Rat(0, 1)
              /\ ret.concept_coverage = Rat(0, 1)
              /\ ret.implementation_depth = Rat(0, 1)
              /\ ret.best_practices_score = Rat(0, 1)
              /\ ret.total_score = Rat(0, 1)
        /\ AfterEvaluateResponseAccuracy =>
              /\ ret.keyword_score = Rat(0, 1)
              /\ ret.quality_score = Rat(0, 1)
              /\ ret.overall_score = Rat(0, 1)

\* the weights of evaluate_response_accuracy: beginner 0.8, intermediate 1.0,
\* advanced 1.2, any other label 1.0
NamedWeight(d) ==
    CASE d = "beginner" -> Rat(8, 10)
      [] d = "advanced" -> Rat(12, 10)
      [] OTHER -> Rat(1, 1)

\* C3: keyword_score, quality_score and overall_score returned by
\* evaluate_response_accuracy lie in [0, 1], and overall_score is
\* min(1.0, (0.6 * keyword_score + 0.4 * quality_score) * weight).
C3_AccuracyScoresWithinUnit ==
    AfterEvaluateResponseAccuracy =>
        /\ Within(ret.keyword_score, 1)
        /\ Within(ret.quality_score, 1)
        /\ Within(ret.overall_score, 1)
        /\ ret.overall_score =
              RatMin(Rat(1, 1),
                     RatMul(RatAdd(RatMul(Rat(6, 10), ret.keyword_score),
                                   RatMul(Rat(4, 10), ret.quality_score)),
                            NamedWeight(difficulty)))

\* a call whose weighted score is above 1 and is capped to 1
C3_Witness ==
    /\ AfterEvaluateResponseAccuracy
    /\ RatLT(Rat(1, 1),
             RatMul(RatAdd(RatMul(Rat(6, 10), ret.keyword_score),
                           RatMul(Rat(4, 10), ret.quality_score)),
                    NamedWeight(difficulty)))
    /\ ret.overall_score = Rat(1, 1)

\* the elements of `concepts` that occur, case-insensitively, as substrings
\* of response r
Occurring(concepts, r) ==
    LET r_lower == response_lower_of(r)
    IN {c \in concepts : In(lower(c), r_lower)}

\* concept_coverage of evaluate_response for response r
CoverageOf(r, keyword_list) ==
    IF IsEmpty(r) \/ strip_is_empty(r) THEN Rat(0, 1)
    ELSE LET all_concepts == all_concepts_of(keyword_list)
         IN concept_coverage_of(
                Cardinality(ConceptsIn(all_concepts, response_lower_of(r))), all_concepts)

\* the responses the response of the call is compared with: the empty one and
\* the single fragments
OtherResponses ==
    [text : {""} \cup {Fragments[i] : i \in DOMAIN Fragments}, filler : {0}]

\* C4, as claimed: if every keyword of the list that occurs in the response
\* of the call also occurs in another response r2, then the concept coverage
\* of r2 is not lower.
C4_CoverageMonotoneInKeywords ==
    AfterEvaluateResponse =>
        \A r2 \in OtherResponses :
            Occurring(SetOf(keywords), response) \subseteq Occurring(SetOf(keywords), r2)
                => RatLE(ret.concept_coverage, CoverageOf(r2, keywords))

\* C4, amended: if every element of the expanded concept set (the keywords
\* and the synonym expansions of the keywords found in the table) that occurs
\* in the response of the call also occurs in a response r2 that is not empty
\* or whitespace-only, then the concept coverage of r2 is not lower.
C4_CoverageMonotoneInConcepts ==
    AfterEvaluateResponse =>
        \A r2 \in OtherResponses :
            (/\ ~strip_is_empty(r2)
             /\ Occurring(all_concepts_of(keywords), response)
                    \subseteq Occurring(all_concepts_of(keywords), r2))
                => RatLE(ret.concept_coverage, CoverageOf(r2, keywords))

\* a call and another response in which strictly more concepts occur and
\* whose coverage is strictly higher
C4_Witness ==
    /\ AfterEvaluateResponse
    /\ ~strip_is_empty(response)
    /\ "" \notin SetOf(keywords)
    /\ \E r2 \in OtherResponses :
          /\ ~strip_is_empty(r2)
          /\ Occurring(all_concepts_of(keywords), response)
                 \subseteq Occurring(all_concepts_of(keywords), r2)
          /\ Occurring(all_concepts_of(keywords), response)
                 # Occurring(all_concepts_of(keywords), r2)
          /\ Occurring(all_concepts_of(keywords), response) # {}
          /\ RatLT(ret.concept_coverage, CoverageOf(r2, keywords))

\* whether sequence `sub` is `full` with some elements left out, order kept
RECURSIVE IsSubsequence(_, _)
IsSubsequence(sub, full) ==
    IF sub = <<>> THEN TRUE
    ELSE IF full = <<>> THEN FALSE
    ELSE IF Head(sub) = Head(full) THEN IsSubsequence(Tail(sub), Tail(full))
    ELSE IsSubsequence(sub, Tail(full))

\* C5: keyword_score is the number of expected keywords whose lower-cased
\* form is a substring of the lower-cased response over the number of expected
\* keywords (0 for an empty list); keywords_found holds exactly those keywords
\* and keywords_missed exactly the others, both in the order of the list.
C5_KeywordScoreIsFractionFound ==
    AfterEvaluateResponseAccuracy =>
        LET occurring == Occurring(SetOf(keywords), response)
            hits == {i \in DOMAIN keywords : keywords[i] \in occurring}
        IN /\ ret.keyword_score =
                 (IF keywords = <<>> THEN Rat(0, 1)
                  ELSE Rat(Cardinality(hits), Len(keywords)))
           /\ SetOf(ret.keywords_found) = occurring
           /\ SetOf(ret.keywords_missed) = SetOf(keywords) \ occurring
           /\ Len(ret.keywords_found) + Len(ret.keywords_missed) = Len(keywords)
           /\ IsSubsequence(ret.keywords_found, keywords)
           /\ IsSubsequence(ret.keywords_missed, keywords)

\* a call with a keyword found in another letter case after one that is
\* missed
C5_Witness ==
    /\ AfterEvaluateResponseAccuracy
    /\ keywords = <<"service", "Ingress">>
    /\ ret.keywords_missed = <<"service">>
    /\ ret.keywords_found = <<"Ingress">>
    /\ ret.keyword_score = Rat(1, 2)

\* the keyword list with every keyword lower-cased, and upper-cased
LowerKeywords(keyword_list) == [i \in DOMAIN keyword_list |-> lower(keyword_list[i])]
UpperKeywords(keyword_list) == [i \in DOMAIN keyword_list |-> upper(keyword_list[i])]

\* the numeric scores of a result of evaluate_response
NumericScores(result) ==
    [f \in {"structure_score", "concept_coverage", "implementation_depth",
            "best_practices_score", "total_score", "concepts_found"} |-> result[f]]

\* the numeric scores of a result of evaluate_response_accuracy
NumericAccuracyScores(result) ==
    [f \in {"keyword_score", "quality_score", "overall_score"} |-> result[f]]

\* the response with its letters turned to upper case
UpperResponse(r) == [text |-> upper(r.text), filler |-> r.filler]

\* C6: changing the letter case of the response or of the keywords leaves
\* every numeric score of both scorers unchanged.
C6_ScoresIgnoreCase ==
    /\ AfterEvaluateResponse =>
          /\ NumericScores(evaluate_response(response, LowerKeywords(keywords), difficulty))
                = NumericScores(ret)
          /\ NumericScores(evaluate_response(response, UpperKeywords(keywords), difficulty))
                = NumericScores(ret)
          /\ NumericScores(evaluate_response(UpperResponse(response), keywords, difficulty))
                = NumericScores(ret)
    /\ AfterEvaluateResponseAccuracy =>
          /\ NumericAccuracyScores(
                 evaluate_response_accuracy(response, LowerKeywords(keywords), difficulty))
                = NumericAccuracyScores(ret)
          /\ NumericAccuracyScores(
                 evaluate_response_accuracy(response, UpperKeywords(keywords), difficulty))
                = NumericAccuracyScores(ret)
          /\ NumericAccuracyScores(
                 evaluate_response_accuracy(UpperResponse(response), keywords, difficulty))
                = NumericAccuracyScores(ret)

\* C7, as claimed: total_score is the sum of the sub-scores and the length
\* bonus times the multiplier of the difficulty.
C7_TotalIsSumTimesMultiplier ==
    (AfterEvaluateResponse /\ difficulty \in NamedDifficulties) =>
        ret.total_score = RatMul(ReturnedSum, NamedMultiplier(difficulty))

\* C7, amended: total_score is the smaller of 100 and the sum of the
\* sub-scores and the length bonus times the multiplier of the difficulty.
C7_TotalIsCappedSumTimesMultiplier ==
    (AfterEvaluateResponse /\ difficulty \in NamedDifficulties) =>
        ret.total_score =
            RatMin(Rat(100, 1), RatMul(ReturnedSum, NamedMultiplier(difficulty)))

\* a call with a multiplier above 1 that raises the total, below the cap
C7_Witness ==
    /\ AfterEvaluateResponse
    /\ difficulty = "advanced"
    /\ RatLT(ReturnedSum, ret.total_score)
    /\ RatLT(ret.total_score, Rat(100, 1))

\* the number of distinct words of `indicators` that occur in the lower-cased
\* response of the call
DistinctPresent(indicators) ==
    LET r_lower == response_lower_of(response)
    IN Cardinality({w \in SetOf(indicators) : In(w, r_lower)})

\* C8: each depth sub-score is a capped linear function of the number n of
\* distinct indicators present: structure min(25, 3n); implementation depth
\* min(30, 2n), 30 exactly when n >= 15; best practices min(20, 2n), 20
\* exactly when n >= 10.
C8_DepthScoresCappedLinear ==
    AfterEvaluateResponse =>
        LET n_structure == DistinctPresent(structure_indicators)
            n_implementation == DistinctPresent(implementation_indicators)
            n_practices == DistinctPresent(best_practices)
        IN /\ ret.structure_score = Rat(Min(25, 3 * n_structure), 1)
           /\ n_structure >= 9 => ret.structure_score = Rat(25, 1)
           /\ ret.implementation_depth = Rat(Min(30, 2 * n_implementation), 1)
           /\ ret.implementation_depth = Rat(30, 1) <=> n_implementation >= 15
           /\ ret.best_practices_score = Rat(Min(20, 2 * n_practices), 1)
           /\ ret.best_practices_score = Rat(20, 1) <=> n_practices >= 10

\* a call whose response holds just the indicators that give full marks: 9
\* structure indicators, 15 implementation indicators, 10 best-practice
\* phrases
C8_Witness ==
    /\ AfterEvaluateResponse
    /\ DistinctPresent(structure_indicators) = 9
    /\ DistinctPresent(implementation_indicators) = 15
    /\ DistinctPresent(best_practices) = 10
    /\ ret.structure_score = Rat(25, 1)
    /\ ret.implementation_depth = Rat(30, 1)
    /\ ret.best_practices_score = Rat(20, 1)

\* the response of the example: every keyword of a list of keywords that are
\* not empty occurs in it as written, and so do the step markers "1." and
\* "2." and, in some letter case, the phrase "best practice"
ExampleResponse ==
    /\ keywords # <<>>
    /\ \A k \in DOMAIN keywords :
          keywords[k] # "" /\ IsSubstring(keywords[k], response.text)
    /\ IsSubstring("1.", response.text)
    /\ IsSubstring("2.", response.text)
    /\ In("best practice", response_lower_of(response))

\* C16: in evaluate_response a response that holds every listed keyword as
\* written, the step markers "1." and "2." and a best-practice phrase scores
\* near the maximum on the keyword and the structure sub-score:
\* concept_coverage and structure_score are at least 20 of 25 each, for every
\* keyword list.
C16_ExampleScoresNearMaximum ==
    (AfterEvaluateResponse /\ ExampleResponse) =>
        /\ RatLE(Rat(20, 1), ret.concept_coverage)
        /\ RatLE(Rat(20, 1), ret.structure_score)

\* the labels of each scorer's table, from the easiest to the hardest
EnhancedLabels == <<"basic", "intermediate", "advanced">>

SimpleLabels == <<"beginner", "intermediate", "advanced">>

\* the multipliers of evaluate_response and the weights of
\* evaluate_response_accuracy, from the easiest label to the hardest
EnhancedMultipliers ==
    [k \in DOMAIN EnhancedLabels |-> difficulty_multiplier_of(EnhancedLabels[k])]

SimpleWeights ==
    [k \in DOMAIN SimpleLabels |-> difficulty_weights_of(SimpleLabels[k])]

Rising(factors) ==
    \A j, k \in DOMAIN factors : j < k => RatLT(factors[j], factors[k])

Falling(factors) ==
    \A j, k \in DOMAIN factors : j < k => RatLT(factors[k], factors[j])

\* C17 as claimed: the two scorers apply their difficulty multipliers in
\* opposite directions: in one of them a harder difficulty gets a lower
\* multiplier, in the other a higher one.
C17_OppositeDirections ==
    called # "none" =>
        \/ Falling(EnhancedMultipliers) /\ Rising(SimpleWeights)
        \/ Rising(EnhancedMultipliers) /\ Falling(SimpleWeights)

\* the labels and the factor of the scorer that was called
CalledLabels == IF AfterEvaluateResponse THEN EnhancedLabels ELSE SimpleLabels

CalledFactor(d) ==
    IF AfterEvaluateResponse THEN difficulty_multiplier_of(d)
    ELSE difficulty_weights_of(d)

\* C17: both scorers apply their difficulty multipliers in the same
\* direction: the factor a call applies is higher than the factor of every
\* easier label of the scorer's table and lower than the factor of every
\* harder one (1.0, 1.05, 1.10 in evaluate_response; 0.8, 1.0, 1.2 in
\* evaluate_response_accuracy).
C17_HarderGetsHigher ==
    called # "none" =>
        \A j, k \in DOMAIN CalledLabels :
            (j < k /\ difficulty \in {CalledLabels[j], CalledLabels[k]}) =>
                RatLT(CalledFactor(CalledLabels[j]), CalledFactor(CalledLabels[k]))

\* evaluate_response_accuracy has scored an advanced question above the
\* weighted sum of its two sub-scores, and below the cap
C17_Witness ==
    /\ AfterEvaluateResponseAccuracy
    /\ difficulty = "advanced"
    /\ RatLT(RatAdd(RatMul(ret.keyword_score, Rat(6, 10)),
                    RatMul(ret.quality_score, Rat(4, 10))),
             ret.overall_score)
    /\ RatLT(ret.overall_score, Rat(1, 1))

\* 0.6 * keyword_score + 0.4 * quality_score of the returned result
ReturnedWeightedSum ==
    RatAdd(RatMul(Rat(6, 10), ret.keyword_score), RatMul(Rat(4, 10), ret.quality_score))

\* every expected keyword was found and all six quality indicators hold
FullMarks == ret.keyword_score = Rat(1, 1) /\ ret.quality_score = Rat(1, 1)

\* C23: the highest overall_score of evaluate_response_accuracy depends on
\* the difficulty: for "beginner" it never exceeds 0.8, and a response with
\* every keyword and all six quality indicators gets exactly 0.8; for
\* "intermediate" and "advanced" it never exceeds 1.0 and such a response
\* gets 1.0; for "advanced" the score is 1.0 exactly when
\* 0.6 * keyword_score + 0.4 * quality_score is at least 1 / 1.2.
C23_MaximumDependsOnDifficulty ==
    AfterEvaluateResponseAccuracy =>
        /\ difficulty = "beginner" =>
              /\ RatLE(ret.overall_score, Rat(8, 10))
              /\ FullMarks => ret.overall_score = Rat(8, 10)
        /\ difficulty \in {"intermediate", "advanced"} =>
              /\ RatLE(ret.overall_score, Rat(1, 1))
              /\ FullMarks => ret.overall_score = Rat(1, 1)
        /\ difficulty = "advanced" =>
              (ret.overall_score = Rat(1, 1) <=> RatLE(Rat(10, 12), ReturnedWeightedSum))

\* a beginner question answered with every keyword and all six quality
\* indicators, scored 0.8
C23_Witness ==
    /\ AfterEvaluateResponseAccuracy
    /\ difficulty = "beginner"
    /\ keywords # <<>>
    /\ FullMarks
    /\ ret.overall_score = Rat(8, 10)

\* an advanced question whose weighted sum is below 1 and which is scored 1.0
C23_AdvancedReachesCapEarly ==
    /\ AfterEvaluateResponseAccuracy
    /\ difficulty = "advanced"
    /\ RatLT(ReturnedWeightedSum, Rat(1, 1))
    /\ ret.overall_score = Rat(1, 1)

\* number of filler words appended at once
AppendedWords == 100

\* the response of the call with text appended: more filler words after it,
\* or, for a response without filler, a fragment after its text
Appended(r) ==
    {[text |-> r.text, filler |-> r.filler + AppendedWords]}
        \cup (IF r.filler = 0
              THEN [text : {r.text \o " " \o Fragments[i] : i \in DOMAIN Fragments},
                    filler : {0}]
              ELSE {})

\* the length bonus of a result of evaluate_response (the result for an
\* empty response has none)
BonusOf(result) ==
    IF "length_bonus" \in DOMAIN result THEN result.length_bonus ELSE Rat(0, 1)

\* no sub-score, bonus or total of `shorter` is above that of `longer`
NotLowerEnhanced(shorter, longer) ==
    /\ RatLE(shorter.structure_score, longer.structure_score)
    /\ RatLE(shorter.concept_coverage, longer.concept_coverage)
    /\ RatLE(shorter.implementation_depth, longer.implementation_depth)
    /\ RatLE(shorter.best_practices_score, longer.best_practices_score)
    /\ RatLE(BonusOf(shorter), BonusOf(longer))
    /\ RatLE(shorter.total_score, longer.total_score)

NotLowerAccuracy(shorter, longer) ==
    /\ RatLE(shorter.keyword_score, longer.keyword_score)
    /\ RatLE(shorter.quality_score, longer.quality_score)
    /\ RatLE(shorter.overall_score, longer.overall_score)

\* C25: a longer response is never penalized: with the keywords and the
\* difficulty of the call, the response with any text appended gets no lower
\* sub-score, length bonus or total from evaluate_response, and no lower
\* keyword_score, quality_score or overall_score from
\* evaluate_response_accuracy.  Checked under SpecShort.
C25_LongerNeverLower ==
    /\ AfterEvaluateResponse =>
          \A longer \in Appended(response) :
              NotLowerEnhanced(ret, evaluate_response(longer, keywords, difficulty))
    /\ AfterEvaluateResponseAccuracy =>
          \A longer \in Appended(response) :
              NotLowerAccuracy(ret, evaluate_response_accuracy(longer, keywords, difficulty))

\* a response with the length bonus 5 of more than 200 words, to which 100
\* more words are appended
C25_Witness ==
    /\ AfterEvaluateResponse
    /\ BonusOf(ret) = Rat(5, 1)
    /\ RatLT(ret.total_score, Rat(100, 1))
    /\ \E longer \in Appended(response) :
          /\ WordCount(longer) > 300
          /\ BonusOf(evaluate_response(longer, keywords, difficulty)) = Rat(5, 1)

\* a response to which a fragment is appended and whose total rises
C25_FragmentRaisesTotal ==
    /\ AfterEvaluateResponse
    /\ response.filler = 0
    /\ \E longer \in Appended(response) :
          /\ longer.text # response.text
          /\ RatLT(ret.total_score,
                   evaluate_response(longer, keywords, difficulty).total_score)

---------------------------------------------------------------------------
(* Claims about run_evaluation, checked under SpecOllama *)

\* the model call did not give a response: the process ended with a return
\* code other than 0, ran into the timeout, or could not be run
CallFailed(outcome) == outcome.kind # "completed" \/ outcome.returncode # 0

\* C9: when run_evaluation has completed with the model available, the
\* results list holds exactly one entry per test question, in the order of
\* the questions; the entry of a failed model call has an error that is not
\* None, an empty response and total_score 0 as its evaluation; the entry of
\* a successful call has error None.
C9_OneEntryPerQuestion ==
    pc_ollama = "done" =>
        /\ Len(results) = Len(test_questions)
        /\ Len(ollama_calls) = Len(test_questions)
        /\ \A k \in DOMAIN results :
              /\ results[k].question = test_questions[k].question
              /\ CallFailed(ollama_calls[k]) =>
                    /\ results[k].error # None
                    /\ results[k].response = ""
                    /\ results[k].evaluation.total_score = Rat(0, 1)
              /\ ~CallFailed(ollama_calls[k]) => results[k].error = None

\* a completed run with a call that timed out, a call that ended with a
\* return code other than 0 and a call that gave a scored response
C9_Witness ==
    /\ pc_ollama = "done"
    /\ \E k \in DOMAIN results : ollama_calls[k].kind = "timeout"
    /\ \E k \in DOMAIN results :
          ollama_calls[k].kind = "completed" /\ ollama_calls[k].returncode # 0
    /\ \E k \in DOMAIN results :
          /\ ~CallFailed(ollama_calls[k])
          /\ RatLT(Rat(0, 1), results[k].evaluation.total_score)

\* the entries of the report are those of the test questions, in their order
ReportOfEveryQuestion(report) ==
    /\ Len(report) = Len(test_questions)
    /\ \A k \in DOMAIN report : report[k].question = test_questions[k].question

\* C12: run_evaluation writes the JSON report at most once, and only after
\* the last test question has been processed: a written report is the whole
\* results list, one entry per test question; a run whose availability check
\* failed has made no model call and has written no report.
C12_ReportWrittenOnceAtEnd ==
    /\ Len(saved_reports) <= 1
    /\ saved_reports # <<>> =>
          /\ pc_ollama = "done"
          /\ Len(ollama_calls) = Len(test_questions)
          /\ saved_reports[1] = results
          /\ ReportOfEveryQuestion(saved_reports[1])
    /\ pc_ollama = "returned" =>
          /\ ollama_calls = <<>>
          /\ saved_reports = <<>>

\* a completed run that wrote its report, with a failed call among its
\* entries
C12_Witness ==
    /\ pc_ollama = "done"
    /\ Len(saved_reports) = 1
    /\ Len(saved_reports[1]) = MaxQuestions
    /\ \E k \in DOMAIN saved_reports[1] : saved_reports[1][k].error # None
    /\ \E k \in DOMAIN saved_reports[1] : saved_reports[1][k].error = None

\* the step is the start of a model call
StartsCall == pc_ollama # "query" /\ pc_ollama' = "query"

\* the step is the end of a model call
EndsCall == pc_ollama = "query" /\ pc_ollama' # "query"

\* C13: run_evaluation processes the test questions one at a time in list
\* order: the call for question k starts only when the k - 1 earlier calls
\* have ended and their entries are in the results list, the call that ends
\* is the one for the next question without an entry, and its entry is
\* appended behind the earlier ones; results change in no other step of the
\* loop.
C13_OneCallAtATimeInOrder ==
    [][/\ StartsCall =>
             /\ Len(ollama_calls) = question_index - 1
             /\ Len(results) = question_index - 1
             /\ UNCHANGED <<results, ollama_calls, question_index>>
       /\ EndsCall =>
             /\ Len(ollama_calls') = Len(ollama_calls) + 1
             /\ Len(results') = Len(results) + 1
             /\ SubSeq(results', 1, Len(results)) = results
             /\ results'[Len(results')].question =
                   test_questions[Len(results')].question
             /\ question_index' = question_index + 1
       /\ (pc_ollama = "loop" /\ ~StartsCall) => UNCHANGED results
      ]_vars

\* the last call of a run has ended behind two earlier entries
C13_Witness ==
    /\ pc_ollama = "loop"
    /\ Len(results) = MaxQuestions
    /\ MaxQuestions >= 2
    /\ \A k \in DOMAIN results : results[k].question = test_questions[k].question
    /\ \E k \in DOMAIN results : CallFailed(ollama_calls[k])

\* t is s without the whitespace at its two ends
IsTrimmed(t, s) ==
    /\ t # "" => (CharAt(t, 1) \notin Whitespace /\ CharAt(t, Len(t)) \notin Whitespace)
    /\ \E j \in 0..Len(s) :
          /\ j + Len(t) <= Len(s)
          /\ SubSeq(s, j + 1, j + Len(t)) = t
          /\ IsAllWhitespace(SubSeq(s, 1, j))
          /\ IsAllWhitespace(SubSeq(s, j + Len(t) + 1, Len(s)))

\* C18: every call of query_ollama returns, in exactly one of two ways: with
\* error None and the trimmed standard output as response exactly when the
\* process ended with return code 0 within the 60 seconds; otherwise with an
\* empty response and an error that is not None, the response_time being 60
\* after a timeout and 0 after another exception.
C18_QueryOllamaOutcomes ==
    /\ Len(results) = Len(ollama_calls)
    /\ \A k \in DOMAIN results :
          LET outcome == ollama_calls[k]
              result == results[k]
          IN /\ result.error = None <=> ~CallFailed(outcome)
             /\ ~CallFailed(outcome) => IsTrimmed(result.response, outcome.stdout)
             /\ CallFailed(outcome) =>
                   /\ result.response = ""
                   /\ result.error # None
                   /\ result.error.str # ""
             /\ outcome.kind = "timeout" => result.response_time = 60
             /\ outcome.kind = "exception" => result.response_time = 0

\* a timeout, another exception, and a standard output that ends with a
\* newline
C18_Witness ==
    /\ \E k \in DOMAIN results : ollama_calls[k].kind = "timeout"
    /\ \E k \in DOMAIN results : ollama_calls[k].kind = "exception"
    /\ \E k \in DOMAIN results :
          /\ ~CallFailed(ollama_calls[k])
          /\ results[k].response # ""
          /\ results[k].response # ollama_calls[k].stdout

\* the results with a total_score greater than 0, by their numbers
PositiveResults ==
    {k \in DOMAIN results : RatLT(Rat(0, 1), results[k].evaluation.total_score)}

\* the sum of the total scores of the results with the numbers in K
RECURSIVE TotalOver(_)
TotalOver(K) ==
    IF K = {} THEN Rat(0, 1)
    ELSE LET k == CHOOSE j \in K : TRUE
         IN RatAdd(results[k].evaluation.total_score, TotalOver(K \ {k}))

\* a is the average of the total scores of the results in K
IsAverageOver(a, K) == RatMul(a, Rat(Cardinality(K), 1)) = TotalOver(K)

\* C22: print_summary computes the average score, the best score and the
\* averages of the categories over the results with a total_score greater
\* than 0 only, and the success rate as the number of these results over the
\* number of all results, so a failed call and a call scored 0 lower the
\* success rate and not the average; when no result has a positive score
\* only the message of no success is printed.
C22_SummaryOverPositiveScores ==
    pc_ollama = "done" =>
        /\ printed_summary.printed
        /\ printed_summary.successful <=> PositiveResults # {}
        /\ printed_summary.successful =>
              /\ IsAverageOver(printed_summary.average_score, PositiveResults)
              /\ \E k \in PositiveResults :
                    printed_summary.best_score = results[k].evaluation.total_score
              /\ \A k \in PositiveResults :
                    RatLE(results[k].evaluation.total_score, printed_summary.best_score)
              /\ printed_summary.success_count = Cardinality(PositiveResults)
              /\ printed_summary.result_count = Len(results)
              /\ {c.category : c \in printed_summary.category_results}
                    = {results[k].category : k \in PositiveResults}
              /\ \A c \in printed_summary.category_results :
                    IsAverageOver(c.average,
                                  {k \in PositiveResults : results[k].category = c.category})
        /\ ~printed_summary.successful =>
              printed_summary = [printed |-> TRUE, successful |-> FALSE]

\* a run with a failed call, a call with an empty response scored 0 and a
\* call scored above 0: a success rate of 1 of 3
C22_Witness ==
    /\ pc_ollama = "done"
    /\ printed_summary.successful
    /\ printed_summary.success_count = 1
    /\ printed_summary.result_count = 3
    /\ \E k \in DOMAIN results : CallFailed(ollama_calls[k])
    /\ \E k \in DOMAIN results :
          ~CallFailed(ollama_calls[k]) /\ results[k].evaluation.total_score = Rat(0, 1)
    /\ RatLT(Rat(0, 1), printed_summary.average_score)

---------------------------------------------------------------------------
(* Claims about run_comprehensive_evaluation, checked under SpecDevOps *)

\* the model call did not give an answer of the model
GenerationFailed(outcome) ==
    \/ outcome.kind = "raises"
    \/ outcome.kind = "status" /\ outcome.status_code # 200

\* C10: every test case whose model call failed (a status other than 200
\* from the chat endpoint, a timeout, an exception during generation) has an
\* entry in the detailed responses that carries an error field and has the
\* overall score 0.
C10_FailedCallsRecordedWithError ==
    \A k \in DOMAIN model_calls :
        GenerationFailed(model_calls[k].outcome) =>
            \E n \in DOMAIN self_results.detailed_responses :
                LET entry == self_results.detailed_responses[n]
                IN /\ entry.category = model_calls[k].category
                   /\ entry.question = model_calls[k].question
                   /\ "error" \in DOMAIN entry
                   /\ entry.accuracy.overall_score = Rat(0, 1)

\* the test cases of the run from category number k on, in the order of the
\* two loops
RECURSIVE CasesFrom(_)
CasesFrom(k) ==
    IF k > Len(test_categories) THEN <<>>
    ELSE LET category == test_categories[k].category
             cases == test_cases_of(category)
         IN [n \in DOMAIN cases |->
                [category |-> category, question |-> cases[n].question]]
            \o CasesFrom(k + 1)

\* the test cases for which generate_response was called, in the order of
\* the calls
AttemptedCases ==
    [k \in DOMAIN model_calls |->
        [category |-> model_calls[k].category, question |-> model_calls[k].question]]

\* run_comprehensive_evaluation is in the loop over the categories
RunningComprehensive == pc_devops \in {"category", "case", "generating"}

\* run_comprehensive_evaluation is over: every test case of every category
\* was attempted, the final report was printed and the results were saved
CompletedComprehensive ==
    /\ pc_devops = "done"
    /\ AttemptedCases = CasesFrom(1)
    /\ Len(saved_results) = 1

\* C11: a failed test case never aborts run_comprehensive_evaluation: once
\* the loop over the categories is entered, whatever model calls fail, the
\* run goes on until every test case of every category has been attempted,
\* the final report is printed and the results file is saved.
C11_FailuresNeverAbort == RunningComprehensive ~> CompletedComprehensive

\* a completed run in which every model call failed
C11_Witness ==
    /\ CompletedComprehensive
    /\ model_calls # <<>>
    /\ \A k \in DOMAIN model_calls : GenerationFailed(model_calls[k].outcome)
    /\ \E k \in DOMAIN model_calls : model_calls[k].outcome.kind = "raises"
    /\ ~use_api

\* the outcome of a startup call was a failure: the health check got no
\* answer or a status other than 200, the loading raised
StartupFailed(entry) ==
    \/ entry.outcome.kind = "raises"
    \/ entry.outcome.kind = "status" /\ entry.outcome.status_code # 200

\* the run started in API mode and its health check failed
HealthCheckFailed ==
    \E k \in DOMAIN startup_calls :
        startup_calls[k].call = "check_api_server" /\ StartupFailed(startup_calls[k])

\* loading the local model failed
LoadFailed ==
    \E k \in DOMAIN startup_calls :
        startup_calls[k].call = "load_model_local" /\ StartupFailed(startup_calls[k])

\* the generation was made by the chat endpoint of the API server
CalledApi(entry) == entry.outcome \in ApiOutcomes

\* C26: in a run started in API mode whose health check fails, use_api is
\* False from before the first test case on, the local model is loaded, and
\* every generation of the run is made by the local model, none by the API;
\* when loading the local model fails as well, the run has ended without a
\* test case run and without a results file written.
C26_FailedHealthCheckFallsBack ==
    HealthCheckFailed =>
        /\ ~use_api
        /\ \E k \in DOMAIN startup_calls : startup_calls[k].call = "load_model_local"
        /\ \A k \in DOMAIN model_calls :
              ~CalledApi(model_calls[k]) /\ model_calls[k].outcome \in LocalOutcomes
        /\ LoadFailed =>
              /\ pc_devops = "returned"
              /\ model_calls = <<>>
              /\ self_results = InitialResults
              /\ saved_results = <<>>

\* a run whose health check failed has finished with its generations made
\* by the local model
C26_Witness ==
    /\ HealthCheckFailed
    /\ ~LoadFailed
    /\ pc_devops = "done"
    /\ model_calls # <<>>
    /\ saved_results # <<>>

\* a run whose health check and model loading both failed has returned
C26_BothFailed == HealthCheckFailed /\ LoadFailed /\ pc_devops = "returned"

---------------------------------------------------------------------------
(* Claims about repeated and malformed scorer calls, checked under SpecCalls *)

FirstCall == called \in {"evaluate_response", "evaluate_response_accuracy"}

SecondCall == called \in {"evaluate_response again", "evaluate_response_accuracy again"}

C15_ScorersNeverRaise ==
    called # "none" =>
        /\ ~ret.raised
        /\ keywords = <<>> =>
              IF called \in {"evaluate_response", "evaluate_response again"}
              THEN ret.value.concept_coverage = Rat(0, 1)
              ELSE ret.value.keyword_score = Rat(0, 1)

\* the scores of a returned result of evaluate_response_accuracy: every entry
\* but the difficulty label, which the result repeats
AccuracyScores(result) == [f \in DOMAIN result \ {"difficulty"} |-> result[f]]

\* the sum of the sub-scores and the bonus of a returned result of
\* evaluate_response
SumOfScores(result) ==
    RatAdd(RatAdd(RatAdd(RatAdd(result.structure_score, result.concept_coverage),
                         result.implementation_depth),
                  result.best_practices_score),
           IF "length_bonus" \in DOMAIN result THEN result.length_bonus ELSE Rat(0, 1))

\* C24: a difficulty label that is not in a scorer's own table is scored with
\* the multiplier 1.0 and raises no error: evaluate_response_accuracy scores
\* "basic" exactly like "intermediate" (an exception it ends with is the one
\* it ends with for "intermediate"), and evaluate_response scores "beginner"
\* exactly like "basic".
C24_UnknownLabelScoredAsDefault ==
    /\ (called = "evaluate_response_accuracy" /\ difficulty = "basic") =>
          LET known == evaluate_response_accuracy_call(response, keywords, "intermediate")
          IN /\ ret.raised = known.raised
             /\ ret.raised => response = None
             /\ ~ret.raised =>
                   /\ AccuracyScores(ret.value) = AccuracyScores(known.value)
                   /\ ret.value.overall_score =
                         RatMin(RatAdd(RatMul(ret.value.keyword_score, Rat(6, 10)),
                                       RatMul(ret.value.quality_score, Rat(4, 10))),
                                Rat(1, 1))
    /\ (called = "evaluate_response" /\ difficulty = "beginner") =>
          /\ ~ret.raised
          /\ ret = evaluate_response_call(response, keywords, "basic")
          /\ ret.value.total_score = RatMin(Rat(100, 1), SumOfScores(ret.value))

\* evaluate_response_accuracy has scored a "basic" question between 0 and 1
C24_Witness ==
    /\ called = "evaluate_response_accuracy"
    /\ difficulty = "basic"
    /\ ~ret.raised
    /\ RatLT(Rat(0, 1), ret.value.overall_score)
    /\ RatLT(ret.value.overall_score, Rat(1, 1))

\* evaluate_response has scored a "beginner" question above 0
C24_BeginnerScored ==
    /\ called = "evaluate_response"
    /\ difficulty = "beginner"
    /\ RatLT(Rat(0, 1), ret.value.total_score)

---------------------------------------------------------------------------
(* Claims about format_for_qwen3_training, checked under SpecFormat *)

\* a turn of the Qwen3 chat format
Turn(role, content) == "<|im_start|>" \o role \o "\n" \o content \o "<|im_end|>"

SystemPrompt ==
    "You are a helpful DevOps and SRE assistant with expertise in cloud infrastructure, CI/CD, monitoring, troubleshooting, and automation."

\* the text of an example: the system turn, the instruction as the user turn,
\* followed by the input when there is one that is not empty, and the output
\* as the assistant turn
ChatText(example) ==
    Turn("system", SystemPrompt) \o "\n"
    \o Turn("user",
            IF example.input = None \/ example.input = Str("")
            THEN example.instruction
            ELSE example.instruction \o "\n\nInput:\n" \o example.input.str)
    \o "\n" \o Turn("assistant", example.output)

\* C19: format_for_qwen3_training returns one formatted record per example,
\* in the order of the examples; each record holds the instruction and the
\* output of its example as they are, and its text is the Qwen3 chat template
\* with the instruction, followed by the input when that is not empty, as the
\* user turn and the output as the assistant turn; the list passed is not
\* changed by any step.
C19_OneFormattedRecordPerExample ==
    [][/\ examples' = examples
       /\ pc_format' = "returned" =>
             /\ Len(formatted_examples') = Len(examples)
             /\ \A k \in DOMAIN examples :
                   /\ formatted_examples'[k].instruction = examples[k].instruction
                   /\ formatted_examples'[k].output = examples[k].output
                   /\ formatted_examples'[k].text = ChatText(examples[k])
      ]_vars

\* two examples formatted, the first with an input and the second without
C19_Witness ==
    /\ pc_format = "returned"
    /\ Len(formatted_examples) = 2
    /\ Truthy(examples[1].input)
    /\ ~Truthy(examples[2].input)
    /\ formatted_examples[1].text # formatted_examples[2].text
    /\ formatted_examples[1].instruction = examples[1].instruction

---------------------------------------------------------------------------
(* Claims about train_model, checked under SpecTrain *)

\* the steps of the checkpoints in OUTPUT_DIR
CheckpointSteps == {checkpoint_step(d) : d \in checkpoints_in(output_dir.entries)}

\* C20: when OUTPUT_DIR holds checkpoint directories, train_model resumes
\* from the latest one, the directory checkpoint-N with the greatest step N,
\* whatever the steps are; when it holds none, training starts from scratch.
C20_ResumesFromLatestCheckpoint ==
    pc_train = "detected" =>
        IF CheckpointSteps = {}
        THEN latest_checkpoint = None
        ELSE \E n \in CheckpointSteps :
                /\ \A m \in CheckpointSteps : m <= n
                /\ latest_checkpoint = Str(OUTPUT_DIR \o "/" \o checkpoint_name(n))

---------------------------------------------------------------------------
(* Claims about interactive_chat, checked under SpecChat *)

Last(seq) == seq[Len(seq)]

\* the step is a settings command whose input was invalid
InvalidSettingsStep ==
    /\ pc_chat = "prompt"
    /\ Len(chat_output') = Len(chat_output) + 1
    /\ Last(chat_output') = "Invalid input, keeping current settings"

\* the step posts a chat request
ChatRequestStep == Len(chat_requests') = Len(chat_requests) + 1

\* C27: when the input to the 'settings' command is invalid (the new max
\* length or the new temperature is not a number), the current settings are
\* kept: max_length and temperature both have the values they had before the
\* command, and the chat requests sent later carry those values.
C27_InvalidSettingsKeepBoth ==
    [][/\ InvalidSettingsStep => (max_length' = max_length /\ temperature' = temperature)
       /\ ChatRequestStep =>
             /\ Last(chat_requests').max_length = max_length
             /\ Last(chat_requests').temperature = temperature
      ]_vars

\* a chat request sent with a max_length other than the default after
\* nothing but a settings command reported as invalid
C27_RequestAfterInvalidSettings ==
    /\ chat_requests # <<>>
    /\ Last(chat_requests).max_length # 512
    /\ \A k \in DOMAIN chat_output : chat_output[k] # "Settings updated!"

---------------------------------------------------------------------------
(* Claims about the Ollama model creator, checked under SpecCreate *)

\* a function of the script is between creating its Modelfile and its
\* finally clause
ModelfileInUse == pc_create \in {"model create", "testing", "shortcut create"}

\* the function has ended, by a return or by an exception
HasEnded(function) ==
    \E k \in DOMAIN create_ended : create_ended[k].function = function

HasReturned(function) ==
    \E k \in DOMAIN create_ended :
        create_ended[k].function = function /\ create_ended[k].how # "raised"

\* `ollama create` was started for the shortcut
Attempted(name) ==
    \E k \in DOMAIN create_calls :
        create_calls[k].command = "create" /\ create_calls[k].model = name

\* C28: whenever create_devops_ollama_model or create_devops_shortcuts has
\* finished, after `ollama create` succeeded, exited non-zero or raised,
\* every temporary Modelfile created has been deleted (none exists outside
\* the try blocks); and in create_devops_shortcuts a non-zero exit of one
\* shortcut does not keep the remaining shortcuts from being attempted: the
\* function ends before its last shortcut only by an exception of the
\* process call.
C28_ModelfilesDeleted ==
    /\ ~ModelfileInUse => temp_files = {}
    /\ HasReturned("create_devops_shortcuts") =>
          \A k \in DOMAIN shortcuts : Attempted(shortcuts[k])
    /\ (HasEnded("create_devops_shortcuts") /\ ~HasReturned("create_devops_shortcuts")) =>
          create_calls[Len(create_calls)].outcome.kind = "raises"
    /\ \A k \in DOMAIN create_calls :
          (/\ create_calls[k].command = "create"
           /\ create_calls[k].outcome.kind = "completed"
           /\ create_calls[k].outcome.returncode # 0
           /\ \E j \in 1..(Len(shortcuts) - 1) : create_calls[k].model = shortcuts[j]
           /\ k = Len(create_calls))
              => /\ pc_create \in {"shortcut", "shortcut create"}
                 /\ shortcut_index <= Len(shortcuts)

\* create_devops_shortcuts has ended by an exception of `ollama create` after
\* a shortcut that exited non-zero, with every Modelfile deleted
C28_Witness ==
    /\ pc_create = "ended"
    /\ HasEnded("create_devops_shortcuts")
    /\ ~HasReturned("create_devops_shortcuts")
    /\ temp_created > 2
    /\ temp_files = {}
    /\ \E k \in DOMAIN create_calls :
          /\ create_calls[k].command = "create"
          /\ create_calls[k].model = shortcuts[1]
          /\ create_calls[k].outcome.kind = "completed"
          /\ create_calls[k].outcome.returncode # 0

\* all three shortcuts attempted although the first exited non-zero
C28_AllAttemptedAfterFailure ==
    /\ HasReturned("create_devops_shortcuts")
    /\ \E k \in DOMAIN create_calls :
          /\ create_calls[k].model = shortcuts[1]
          /\ create_calls[k].outcome.kind = "completed"
          /\ create_calls[k].outcome.returncode # 0
    /\ temp_created = 1 + Len(shortcuts)
    /\ temp_files = {}

---------------------------------------------------------------------------
(* Claims about load_devops_datasets, checked under SpecDatasets *)

\* the entries of datasets_info about a source
EntriesOf(source) == {k \in DOMAIN datasets_info : datasets_info[k].source = source}

\* the examples of all_examples that come from a source
ExamplesOf(source) ==
    LenExamples(SelectSeq(all_examples, LAMBDA run : run.source = source))

\* C29: load_devops_datasets never fails because an external dataset fails:
\* for every combination of failing external sources it returns; each of the
\* 8 external sources has exactly one entry in datasets_info, the sources
\* after a failing one included; the returned examples include the 5 base
\* and the 15 comprehensive synthetic examples, so there are at least 20 and
\* the branch for fewer than 10 examples is not executed.
C29_ExternalFailuresTolerated ==
    /\ pc_datasets \in {"not called", "external", "returned"}
    /\ pc_datasets = "external" =>
          \A k \in DOMAIN external_sources :
              Cardinality(EntriesOf(external_sources[k])) =
                  IF k < source_index THEN 1 ELSE 0
    /\ pc_datasets = "returned" =>
          /\ Len(external_sources) = 8
          /\ \A k \in DOMAIN external_sources :
                Cardinality(EntriesOf(external_sources[k])) = 1
          /\ Len(datasets_info) = Len(external_sources) + 2
          /\ ExamplesOf("Synthetic examples") = 5
          /\ ExamplesOf("Comprehensive synthetic examples") = 15
          /\ LenExamples(all_examples) >= 20
          /\ Cardinality(EntriesOf("Synthetic examples")) = 1

\* load_devops_datasets has returned after a failing source that was followed
\* by a source giving examples
C29_Witness ==
    /\ pc_datasets = "returned"
    /\ \E j, k \in DOMAIN datasets_info :
          /\ j < k
          /\ ~datasets_info[j].loaded
          /\ datasets_info[k].loaded
          /\ datasets_info[k].count = 3
          /\ datasets_info[k].source = external_sources[Len(external_sources)]

\* load_devops_datasets has returned 20 examples after all 8 external
\* sources failed
C29_AllFailed ==
    /\ pc_datasets = "returned"
    /\ \A k \in DOMAIN external_sources :
          \E j \in EntriesOf(external_sources[k]) : ~datasets_info[j].loaded
    /\ LenExamples(all_examples) = 20

---------------------------------------------------------------------------
(* Claims about the pipeline test, checked under SpecPipeline *)

\* the step was made and did not raise
Succeeded(stage) ==
    \E k \in DOMAIN pipeline_calls :
        pipeline_calls[k].stage = stage /\ pipeline_calls[k].outcome = [kind |-> "ok"]

\* training, the local save, the token check, the repository creation and
\* the uploads have all succeeded
EverythingSucceeded ==
    /\ \A k \in DOMAIN training_stages : Succeeded(training_stages[k])
    /\ \E k \in DOMAIN pipeline_calls :
          pipeline_calls[k] = PipelineCall("validate_hf_token", [kind |-> "valid"])
    /\ \A k \in DOMAIN upload_stages : Succeeded(upload_stages[k])

ReportsSuccess ==
    \E k \in DOMAIN pipeline_output :
        pipeline_output[k] \in {"ALL TESTS PASSED!", "TEST PIPELINE SUCCESSFUL!"}

\* C21: test_training_pipeline returns True, and its caller reports that all
\* tests passed, only when training, the local save and the upload to the
\* Hub have all succeeded; with a missing or invalid token, or a failed
\* repository creation or upload, failure is reported.
C21_SuccessOnlyAfterUpload ==
    /\ PipelineSuccess => EverythingSucceeded
    /\ ReportsSuccess => EverythingSucceeded
    /\ (pc_pipeline = "reported" /\ ~EverythingSucceeded) =>
          pipeline_output[Len(pipeline_output)] \in
              {"TESTS FAILED!", "TEST PIPELINE FAILED!"}

\* all tests are reported as passed although HF_TOKEN is not set
C21_PassedWithoutToken ==
    /\ pc_pipeline = "reported"
    /\ ReportsSuccess
    /\ \E k \in DOMAIN pipeline_calls :
          pipeline_calls[k] = PipelineCall("validate_hf_token", [kind |-> "missing"])

=============================================================================
